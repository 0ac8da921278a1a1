---------------------------- MODULE AppendOnlyLog ----------------------------
(* What a run's audit ledger promises its readers: a log that events join   *)
(* at the end, once each, and that reads back as exactly those events; or,  *)
(* if it may break, a read that fails, and then fails for ever.             *)
EXTENDS Sequences

CONSTANTS
    Events,
    Failure,   \* in place of the log, when a read raises
    MayBreak   \* TRUE: the log may become unreadable

VARIABLE log   \* what a verified read returns

Init == log = <<>>

Join(e) ==
    /\ log # Failure
    /\ \A i \in DOMAIN log : log[i] # e
    /\ log' = Append(log, e)

Break == MayBreak /\ log' = Failure

Next == Break \/ \E e \in Events : Join(e)

Spec == Init /\ [][Next]_log

=============================================================================
