---------------------------- MODULE MCIOManager ----------------------------
(* Small instances of IOManager for TLC.                                   *)
EXTENDS IOManager, TLC

CONSTANTS a, b, ra, wa, wb

(* One socket read by one fiber and written by another.                    *)
UseDuplex == (ra :> <<a, READ>>) @@ (wa :> <<a, WRITE>>)

(* Two sockets, each used in one direction.                                *)
UseHalfDuplex == (ra :> <<a, READ>>) @@ (wb :> <<b, WRITE>>)

CallOn(name, fd, event) == [name |-> name, fd |-> fd, event |-> event]

(* Every call, but close() only of an fd nobody writes: the cancelAll of   *)
(* one that has a WRITE event always fails an assertion.                   *)
CallsHalfDuplex ==
  {CallOn(name, u[1], u[2]) : name \in {"cancelEvent", "delEvent"}, u \in {Use[k] : k \in Tasks}}
    \cup {CallOn("cancelAll", fd, NONE) :
            fd \in {f \in Fds : \A k \in Tasks : Use[k] # <<f, WRITE>>}}

NoCalls == {}
=============================================================================
