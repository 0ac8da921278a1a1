----------------------------- MODULE AuditLedger -----------------------------
(***************************************************************************)
(* The ledger file of one run: AuditLedger.append reads the whole file for *)
(* the hash of its last line, then HostFilesystem.append_jsonl opens the   *)
(* file for appending and writes one line that points back to that hash.   *)
(* Nothing holds the file between the two, and nothing syncs it.           *)
(*                                                                         *)
(* An event is written by one append and carries a fresh event_id, so the  *)
(* appends stand for the events.  SHA-256 is taken to be injective: the    *)
(* current_event_hash of a line is represented by its event.               *)
(***************************************************************************)
EXTENDS Naturals, Sequences

CONSTANTS
    Events,    \* the events that are appended, each by a call of its own
    None,      \* the previous hash of a first line; a line that does not parse
    Serial,    \* TRUE: the host serves the run one call at a time
    MayFail,   \* TRUE: the disk may give out during a write
    MayCrash   \* TRUE: the host process may stop, and be started again

ASSUME LedgerAssumption ==
    /\ None \notin Events /\ None \notin [event : Events, prev : Events \cup {None}]
    /\ Serial \in BOOLEAN /\ MayFail \in BOOLEAN /\ MayCrash \in BOOLEAN

VARIABLES
    file,   \* the lines of ledger.jsonl; None is a line that does not parse
    cut,    \* TRUE: the last line has no newline yet
    pc,     \* where the append of each event is
    last    \* the hash it read

vars == <<file, cut, pc, last>>

Entry == [event : Events, prev : Events \cup {None}]

TypeOK ==
    /\ file \in Seq(Entry \cup {None})
    /\ cut \in BOOLEAN
    /\ pc \in [Events -> {"idle", "write", "returned", "raised", "lost"}]
    /\ last \in [Events -> Events \cup {None}]

Init ==
    /\ file = <<>>
    /\ cut = FALSE
    /\ pc = [e \in Events |-> "idle"]
    /\ last = [e \in Events |-> None]

-----------------------------------------------------------------------------
(* Reading the file *)

(* read_run_events raises on a line that does not parse. *)
Readable(f) == \A i \in 1 .. Len(f) : f[i] # None

(* _last_hash *)
LastHash(f) == IF f = <<>> THEN None ELSE f[Len(f)].event

PreviousHash(f, i) == IF i = 1 THEN None ELSE f[i - 1].event

(* verify_run_chain.  A line's own hash is right by construction: what can *)
(* go wrong here is what it points back to.                                *)
Verifies(f) ==
    /\ Readable(f)
    /\ \A i \in 1 .. Len(f) : f[i].prev = PreviousHash(f, i)

-----------------------------------------------------------------------------
(* Appending a line *)

(* Mutant: a torn last line is dropped before the file is read. *)
ReadLastDroppingTorn(e) ==
    /\ pc[e] = "idle"
    /\ Serial => \A d \in Events : pc[d] # "write"
    /\ LET f == IF file # <<>> /\ file[Len(file)] = None
                THEN SubSeq(file, 1, Len(file) - 1) ELSE file
       IN  /\ Readable(f)
           /\ file' = f
           /\ last' = [last EXCEPT ![e] = LastHash(f)]
    /\ cut' = FALSE
    /\ pc' = [pc EXCEPT ![e] = "write"]

(* The first half of append. *)
ReadLast(e) ==
    /\ pc[e] = "idle"
    /\ Serial => \A d \in Events : pc[d] # "write"
    /\ \/ /\ Readable(file)
          /\ last' = [last EXCEPT ![e] = LastHash(file)]
          /\ pc' = [pc EXCEPT ![e] = "write"]
       \/ /\ ~Readable(file)
          /\ pc' = [pc EXCEPT ![e] = "raised"]
          /\ UNCHANGED last
    /\ UNCHANGED <<file, cut>>

(* Mutants: a line without its newline is written over; the file is opened *)
(* anew.                                                                   *)
LandedOverCut(line) ==
    IF cut THEN [file EXCEPT ![Len(file)] = line] ELSE Append(file, line)

LandedInNewFile(line) == <<line>>

(* append_jsonl: what the file becomes when line goes to its end.  Behind  *)
(* a line that has no newline the two become one that does not parse.      *)
Landed(line) ==
    IF cut THEN [file EXCEPT ![Len(file)] = None] ELSE Append(file, line)

Written(e) == [event |-> e, prev |-> last[e]]

Write(e) ==
    /\ pc[e] = "write"
    /\ file' = Landed(Written(e))
    /\ cut' = FALSE
    /\ pc' = [pc EXCEPT ![e] = "returned"]
    /\ UNCHANGED last

(* A write that breaks off leaves nothing, a part of the line, the line    *)
(* without its newline, or all of it.                                      *)
BreakOff(e) ==
    \/ UNCHANGED <<file, cut>>
    \/ file' = Landed(None) /\ cut' = TRUE
    \/ file' = Landed(Written(e)) /\ cut' \in BOOLEAN

WriteFails(e) ==
    /\ MayFail
    /\ pc[e] = "write"
    /\ BreakOff(e)
    /\ pc' = [pc EXCEPT ![e] = "raised"]
    /\ UNCHANGED last

(* The process stops; one of the appends it was making may have begun.     *)
Crash ==
    /\ MayCrash
    /\ \E e \in Events : pc[e] = "write" /\ BreakOff(e)
    /\ pc' = [e \in Events |-> IF pc[e] = "write" THEN "lost" ELSE pc[e]]
    /\ UNCHANGED last

Next ==
    \/ \E e \in Events : ReadLast(e) \/ Write(e) \/ WriteFails(e)
    \/ Crash

Spec == Init /\ [][Next]_vars

-----------------------------------------------------------------------------
(* Properties *)

(* One call at a time, a file that can be read is a chain that verifies,   *)
(* whatever fails on the way: no failure makes the ledger wrong in silence.*)
ReadableIsChained == Serial /\ Readable(file) => Verifies(file)

(* An append that returned is on record for whoever can read the file:     *)
(* what later appends, errors and crashes do, they do not take it back     *)
(* without the reader noticing.                                            *)
ReturnedIsOnRecord ==
    \A e \in Events : pc[e] = "returned" /\ Readable(file) =>
        \E i \in 1 .. Len(file) : file[i].event = e

(* What a verified read returns; Failure when it raises.                   *)
Failure == <<None>>

VerifiedRead ==
    IF Verifies(file) THEN [i \in 1 .. Len(file) |-> file[i].event] ELSE Failure

MayBreak == ~Serial \/ MayFail \/ MayCrash

Abstract == INSTANCE AppendOnlyLog WITH log <- VerifiedRead

(* To its readers the ledger is an append-only log: nothing on record is   *)
(* lost, moved or doubled.  What concurrent appends, a bad disk or a crash *)
(* can do is make it unreadable, and no later append makes that good; one  *)
(* call at a time, with none of these, it stays readable.                  *)
IsAppendOnlyLog == Abstract!Spec

=============================================================================
