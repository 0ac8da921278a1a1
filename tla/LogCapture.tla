------------------------------ MODULE LogCapture ------------------------------
(***************************************************************************)
(* The full-log bundle of one run: LogCaptureBroker.append_entries makes   *)
(* sure of the bundle's metadata, reads the whole log for the sequence     *)
(* number of its last entry, and appends the entries of a batch with the   *)
(* numbers that follow.  What it returns is the window of those numbers.   *)
(***************************************************************************)
EXTENDS Naturals, Sequences

CONSTANTS
    Cycles,           \* each has a batch of entries to log
    EntriesPerBatch,
    MaxEntries,       \* bound: the lines a log may grow to
    None,             \* no file; a line that does not parse
    Torn,             \* what a write that broke off has left
    Serial,           \* TRUE: the host serves the log one call at a time
    MayFail,          \* TRUE: the disk may give out during a write
    MayCrash          \* TRUE: the host process may stop, and be started again

LogConstants ==
    /\ EntriesPerBatch \in Nat \ {0} /\ MaxEntries \in Nat
    /\ {Serial, MayFail, MayCrash} \subseteq BOOLEAN
    /\ None \notin [by : Cycles, sequence : Nat]
    /\ "bundle" \notin {None, Torn} /\ None # Torn

VARIABLES
    bundle,    \* full-log-bundle.json: None, Torn or "bundle"
    entries,   \* the lines of full-log-bundle.jsonl
    open,      \* TRUE: the last line has no newline yet
    batch,     \* where the append_entries of each cycle is
    first      \* first_sequence of its last attempt

(* The file of the metadata: absent, broken off, or whole. *)
LogBundle == {None, Torn, "bundle"}

CapturedLogEntry == [by : Cycles, sequence : Nat \ {0}]

LogTypeOK ==
    /\ bundle \in LogBundle
    /\ entries \in Seq(CapturedLogEntry \cup {None})
    /\ open \in BOOLEAN
    /\ batch \in [Cycles -> {"idle", "create", "number", "append",
                             "returned", "raised", "lost"}]
    /\ first \in [Cycles -> Nat]

LogInit ==
    /\ bundle = None
    /\ entries = <<>> /\ open = FALSE
    /\ batch = [c \in Cycles |-> "idle"]
    /\ first = [c \in Cycles |-> 0]

-----------------------------------------------------------------------------
UnderWay(c) == batch[c] \in {"create", "number", "append"}

Becomes(c, at) == batch' = [batch EXCEPT ![c] = at]

(* append_entries, also once more when it raised or was lost: the first    *)
(* half of ensure_bundle.                                                  *)
FindBundle(c) ==
    /\ batch[c] \in {"idle", "raised", "lost"}
    /\ Serial => \A d \in Cycles : ~UnderWay(d)
    /\ Len(entries) + EntriesPerBatch <= MaxEntries
    /\ \/ bundle = None /\ Becomes(c, "create")
       \/ bundle = Torn /\ Becomes(c, "raised")
       \/ bundle = "bundle" /\ Becomes(c, "number")
    /\ UNCHANGED <<bundle, entries, open, first>>

(* The second half: another call may have written the metadata since.      *)
CreateBundle(c) ==
    /\ batch[c] = "create"
    /\ \/ bundle = None /\ bundle' = "bundle" /\ Becomes(c, "number")
       \/ bundle # None /\ UNCHANGED bundle /\ Becomes(c, "raised")
       \/ /\ MayFail /\ bundle = None
          /\ bundle' \in {None, Torn} /\ Becomes(c, "raised")
    /\ UNCHANGED <<entries, open, first>>

(* read_entries raises on a line that does not parse. *)
LogReadable == \A i \in 1 .. Len(entries) : entries[i] # None

(* Mutants: the numbers begin at zero; they follow those of the batches    *)
(* that returned.                                                          *)
SequenceFromZero ==
    IF entries = <<>> THEN 0 ELSE entries[Len(entries)].sequence + 1

SequenceByReceipts ==
    1 + Len(SelectSeq(entries, LAMBDA e : batch[e.by] = "returned"))

(* _next_sequence *)
NextSequence ==
    IF entries = <<>> THEN 1 ELSE entries[Len(entries)].sequence + 1

NumberEntries(c) ==
    /\ batch[c] = "number"
    /\ \/ /\ LogReadable
          /\ first' = [first EXCEPT ![c] = NextSequence]
          /\ Becomes(c, "append")
       \/ ~LogReadable /\ UNCHANGED first /\ Becomes(c, "raised")
    /\ UNCHANGED <<bundle, entries, open>>

Captured(c, n) ==
    [k \in 1 .. n |-> [by |-> c, sequence |-> first[c] + k - 1]]

(* append_jsonl: behind a line that has no newline the first of the lines  *)
(* becomes a part of it, and it does not parse.                            *)
Behind(lines) ==
    IF open /\ lines # <<>>
    THEN [entries EXCEPT ![Len(entries)] = None] \o Tail(lines)
    ELSE entries \o lines

AppendEntries(c) ==
    /\ batch[c] = "append"
    /\ entries' = Behind(Captured(c, EntriesPerBatch))
    /\ open' = FALSE
    /\ Becomes(c, "returned")
    /\ UNCHANGED <<bundle, first>>

(* A write that breaks off leaves some of the lines, and of the next one a *)
(* part, or all but its newline.                                           *)
BreaksOff(c) ==
    \/ UNCHANGED <<entries, open>>
    \/ \E n \in 1 .. EntriesPerBatch :
          entries' = Behind(Captured(c, n)) /\ open' \in BOOLEAN
    \/ \E n \in 0 .. EntriesPerBatch - 1 :
          entries' = Behind(Append(Captured(c, n), None)) /\ open' = TRUE

AppendFails(c) ==
    /\ MayFail
    /\ batch[c] = "append"
    /\ BreaksOff(c)
    /\ Becomes(c, "raised")
    /\ UNCHANGED <<bundle, first>>

LogNext ==
    \E c \in Cycles : \/ FindBundle(c) \/ CreateBundle(c)
                      \/ NumberEntries(c)
                      \/ AppendEntries(c) \/ AppendFails(c)

(* What append_entries returns: the window of its last attempt. *)
LogAppendReceipt(c) ==
    [start |-> first[c], end |-> first[c] + EntriesPerBatch - 1]

(* The process stops; what it was writing may have begun. *)
LogStops ==
    /\ \/ UNCHANGED <<bundle, entries, open>>
       \/ /\ \E c \in Cycles : batch[c] = "create"
          /\ bundle = None /\ bundle' = Torn
          /\ UNCHANGED <<entries, open>>
       \/ /\ \E c \in Cycles : batch[c] = "append" /\ BreaksOff(c)
          /\ UNCHANGED bundle
    /\ batch' = [c \in Cycles |-> IF UnderWay(c) THEN "lost" ELSE batch[c]]
    /\ UNCHANGED first

===============================================================================
