------------------------------- MODULE Notify -------------------------------
(***************************************************************************)
(* tokio::sync::Notify as src/src/backend/pool.rs uses it (external code). *)
(* A bell holds the Notified future of every task and the one permit that  *)
(* notify_one() stores when nobody waits.  A future is                     *)
(*   "none"     not created,                                               *)
(*   "waiting"  enabled, not notified,                                     *)
(*   "one"      notified by notify_one(), not yet polled: dropping it      *)
(*              passes the notification on,                                *)
(*   "ready"    notified by notify_waiters() or by the stored permit:      *)
(*              dropping it loses the notification.                        *)
(* tokio wakes waiters in FIFO order; here notify_one() may wake any of    *)
(* them, so what is shown does not depend on the order.                    *)
(***************************************************************************)

Futures == {"none", "waiting", "one", "ready"}

Bells(T) == [fut : [T -> Futures], stored : BOOLEAN]

SilentBell(T) == [fut |-> [t \in T |-> "none"], stored |-> FALSE]

Waiting(bell) == {t \in DOMAIN bell.fut : bell.fut[t] = "waiting"}

\* notified() followed by enable(): take the stored permit or start waiting.
Enable(bell, t) ==
    [fut    |-> [bell.fut EXCEPT ![t] = IF bell.stored THEN "ready" ELSE "waiting"],
     stored |-> FALSE]

\* notify_one(): the bells it may leave behind.
NotifyOne(bell) ==
    IF Waiting(bell) = {}
    THEN {[fut |-> bell.fut, stored |-> TRUE]}
    ELSE {[fut |-> [bell.fut EXCEPT ![w] = "one"], stored |-> bell.stored]
            : w \in Waiting(bell)}

\* notify_waiters(): wakes everybody, stores nothing.
NotifyWaiters(bell) ==
    [fut    |-> [t \in DOMAIN bell.fut |->
                    IF bell.fut[t] = "waiting" THEN "ready" ELSE bell.fut[t]],
     stored |-> bell.stored]

\* Dropping t's future: an unseen notify_one() goes to another waiter.
DropFuture(bell, t) ==
    LET dropped == [fut |-> [bell.fut EXCEPT ![t] = "none"], stored |-> bell.stored]
    IN  IF bell.fut[t] = "one" THEN NotifyOne(dropped) ELSE {dropped}
=============================================================================
