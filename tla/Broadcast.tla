------------------------------ MODULE Broadcast ------------------------------
(***************************************************************************)
(* tokio's bounded broadcast channel as one receiver sees it (external).   *)
(*                                                                         *)
(* The channel keeps the last Cap values.  A receiver that falls behind    *)
(* loses the oldest ones; its next recv() returns Lagged(n), n the number  *)
(* lost, and the one after returns the oldest value still kept.            *)
(***************************************************************************)
EXTENDS Naturals, Sequences

CONSTANT Cap     \* the capacity given to broadcast::channel

ASSUME CapAssumption == Cap \in Nat \ {0}

\* A receiver right after subscribe(): nothing sent before is seen.
Subscribed == [items |-> <<>>, missed |-> 0]

\* Sender::send.
Send(rx, x) ==
    IF Len(rx.items) < Cap
    THEN [rx EXCEPT !.items = Append(@, x)]
    ELSE [items |-> Append(Tail(rx.items), x), missed |-> rx.missed + 1]

\* recv() returns Lagged(rx.missed).
Lagging(rx) == rx.missed > 0

Relag(rx) == [rx EXCEPT !.missed = 0]

\* recv() returns Ok(Head(rx.items)).
Ready(rx) == rx.missed = 0 /\ rx.items # <<>>

Taken(rx) == [rx EXCEPT !.items = Tail(@)]
=============================================================================
