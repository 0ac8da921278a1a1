------------------------- MODULE AuditLedger_proofs -------------------------
(***************************************************************************)
(* Theorems about AuditLedger, for any set of events, and about            *)
(* RunEvidence, whose ledger it is, for any cycles, batches and bounds.    *)
(***************************************************************************)
EXTENDS RunEvidence, SequenceTheorems, TLAPS

Line == Entry \cup {None}

-----------------------------------------------------------------------------
(* Type correctness *)

TypeInv == TypeOK /\ (cut => file # <<>>)

(* What Landed makes of the file: its last line spoilt, or a line more.    *)
LEMMA LandedEffect ==
    ASSUME TypeInv, NEW line \in Line
    PROVE  /\ Landed(line) \in Seq(Line)
           /\ cut => /\ Len(Landed(line)) = Len(file)
                     /\ Len(file) \in 1 .. Len(file)
                     /\ Landed(line)[Len(file)] = None
           /\ ~cut => /\ Landed(line) = Append(file, line)
                      /\ Len(Landed(line)) = Len(file) + 1
                      /\ Landed(line)[Len(file) + 1] = line
                      /\ \A i \in 1 .. Len(file) : Landed(line)[i] = file[i]
<1>1. file \in Seq(Line) /\ None \in Line
  BY DEF TypeInv, TypeOK, Line
<1>2. CASE cut
  <2>1. Landed(line) = [file EXCEPT ![Len(file)] = None]
    BY <1>2 DEF Landed
  <2>2. Len(file) \in 1 .. Len(file)
    <3>1. file # <<>>
      BY <1>2 DEF TypeInv
    <3> QED
      BY <1>1, <3>1, EmptySeq
  <2>3. /\ [file EXCEPT ![Len(file)] = None] \in Seq(Line)
        /\ Len([file EXCEPT ![Len(file)] = None]) = Len(file)
        /\ [file EXCEPT ![Len(file)] = None][Len(file)] = None
    BY <1>1, <2>2, ExceptSeq
  <2> QED
    BY <1>2, <2>1, <2>2, <2>3
<1>3. CASE ~cut
  <2>1. Landed(line) = Append(file, line)
    BY <1>3 DEF Landed
  <2> QED
    BY <1>1, <1>3, <2>1, AppendProperties
<1> QED
  BY <1>2, <1>3

(* Behind a line without its newline the last line alone is touched. *)
LEMMA LandedExcept ==
    ASSUME TypeInv, cut, NEW line \in Line, NEW i \in 1 .. Len(Landed(line)),
           Landed(line)[i] # None
    PROVE  i \in 1 .. Len(file) /\ Landed(line)[i] = file[i]
<1>1. file \in Seq(Line) /\ Len(file) \in 1 .. Len(file)
  BY LandedEffect DEF TypeInv, TypeOK, Line
<1>2. Landed(line) = [file EXCEPT ![Len(file)] = None]
  BY DEF Landed
<1>3. i \in 1 .. Len(file) /\ i # Len(file)
  BY LandedEffect
<1> QED
  BY <1>1, <1>2, <1>3

LEMMA WrittenType ==
    ASSUME TypeInv, NEW e \in Events
    PROVE  /\ Written(e) \in Line /\ Written(e) # None
           /\ Written(e).event = e /\ Written(e).prev = last[e]
<1>1. last[e] \in Events \cup {None}
  BY DEF TypeInv, TypeOK
<1>2. Written(e) \in [event : Events, prev : Events \cup {None}]
  BY <1>1 DEF Written
<1> QED
  BY <1>2, LedgerAssumption DEF Written, Entry, Line

(* Every step leaves the lines alone or lands one line. *)
LEMMA FileSteps ==
    ASSUME TypeInv, [Next]_vars
    PROVE  \/ UNCHANGED <<file, cut>>
           \/ \E line \in Line : file' = Landed(line) /\ cut' \in BOOLEAN
<1>1. None \in Line
  BY DEF Line
<1>2. ASSUME NEW e \in Events, BreakOff(e)
      PROVE  \/ UNCHANGED <<file, cut>>
             \/ \E line \in Line : file' = Landed(line) /\ cut' \in BOOLEAN
  BY <1>1, <1>2, WrittenType DEF BreakOff
<1>3. ASSUME NEW e \in Events, ReadLast(e) PROVE UNCHANGED <<file, cut>>
  BY <1>3 DEF ReadLast
<1>4. ASSUME NEW e \in Events, Write(e)
      PROVE  \E line \in Line : file' = Landed(line) /\ cut' \in BOOLEAN
  BY <1>4, WrittenType DEF Write
<1>5. CASE UNCHANGED vars
  BY <1>5 DEF vars
<1> QED
  BY <1>2, <1>3, <1>4, <1>5 DEF Next, WriteFails, Crash

LEMMA LastHashType ==
    ASSUME TypeInv, Readable(file)
    PROVE  LastHash(file) \in Events \cup {None}
<1>1. CASE file = <<>>
  BY <1>1 DEF LastHash
<1>2. CASE file # <<>>
  <2>1. Len(file) \in 1 .. Len(file)
    BY <1>2, EmptySeq DEF TypeInv, TypeOK
  <2>2. file[Len(file)] \in Entry
    BY <2>1, ElementOfSeq DEF TypeInv, TypeOK, Readable
  <2> QED
    BY <1>2, <2>2 DEF LastHash, Entry
<1> QED
  BY <1>1, <1>2

LEMMA TypeInit == Init => TypeInv
<1> SUFFICES ASSUME Init PROVE TypeInv
  OBVIOUS
<1>1. file \in Seq(Entry \cup {None})
  BY DEF Init
<1>2. cut \in BOOLEAN /\ ~cut
  BY DEF Init
<1>3. /\ pc \in [Events -> {"idle", "write", "returned", "raised", "lost"}]
      /\ last \in [Events -> Events \cup {None}]
  BY DEF Init
<1> QED
  BY <1>1, <1>2, <1>3 DEF TypeInv, TypeOK

LEMMA TypeStep ==
    ASSUME TypeInv, [Next]_vars
    PROVE  TypeInv'
<1>1. file' \in Seq(Line) /\ cut' \in BOOLEAN /\ (cut' => file' # <<>>)
  <2>1. CASE UNCHANGED <<file, cut>>
    BY <2>1 DEF TypeInv, TypeOK, Line
  <2>2. ASSUME NEW line \in Line, file' = Landed(line), cut' \in BOOLEAN
        PROVE  file' \in Seq(Line) /\ Len(file') # 0
    BY <2>2, LandedEffect DEF TypeInv, TypeOK
  <2> QED
    BY <2>1, <2>2, FileSteps
<1>2. pc' \in [Events -> {"idle", "write", "returned", "raised", "lost"}]
  BY DEF TypeInv, TypeOK, Next, vars, ReadLast, Write, WriteFails, Crash
<1>3. last' \in [Events -> Events \cup {None}]
  <2>1. ASSUME NEW e \in Events, ReadLast(e)
        PROVE  last' \in [Events -> Events \cup {None}]
    BY <2>1, LastHashType DEF ReadLast, TypeInv, TypeOK
  <2> QED
    BY <2>1 DEF TypeInv, TypeOK, Next, vars, Write, WriteFails, Crash
<1> QED
  BY <1>1, <1>2, <1>3 DEF TypeInv, TypeOK, Line

LEMMA TypeInvariant == Spec => []TypeInv
<1>1. TypeInv /\ [Next]_vars => TypeInv'
  BY TypeStep
<1> QED
  BY <1>1, TypeInit, PTL DEF Spec

(* The file is a sequence of entries and spoilt lines in every state. *)
THEOREM LedgerTypeCorrect == Spec => []TypeOK
<1>1. TypeInv => TypeOK
  BY DEF TypeInv
<1> QED
  BY <1>1, TypeInvariant, PTL

-----------------------------------------------------------------------------
(* What landing a line does to reading and verifying *)

(* A file that can be read after a line landed could be read before it.    *)
LEMMA ReadableBefore ==
    ASSUME TypeInv, NEW line \in Line, Readable(Landed(line))
    PROVE  ~cut /\ line # None /\ Readable(file)
<1>1. ~cut
  BY LandedEffect DEF Readable
<1>2. Len(file) \in Nat /\ Len(Landed(line)) = Len(file) + 1
  BY <1>1, LandedEffect DEF TypeInv, TypeOK
<1>3. Len(file) + 1 \in 1 .. Len(Landed(line))
  BY <1>2
<1>4. line # None
  BY <1>1, <1>3, LandedEffect DEF Readable
<1>5. ASSUME NEW i \in 1 .. Len(file) PROVE file[i] # None
  <2>1. i \in 1 .. Len(Landed(line)) /\ Landed(line)[i] = file[i]
    BY <1>1, <1>2, LandedEffect
  <2> QED
    BY <2>1 DEF Readable
<1> QED
  BY <1>1, <1>4, <1>5 DEF Readable

(* A chain grows by a line that points to its last one. *)
LEMMA ChainGrows ==
    ASSUME TypeInv, Verifies(file), ~cut, NEW line \in Line, line # None,
           line.prev = LastHash(file)
    PROVE  Verifies(Landed(line))
<1> DEFINE f == Landed(line)
<1>1. /\ Len(file) \in Nat /\ Len(f) = Len(file) + 1
      /\ f[Len(file) + 1] = line
      /\ \A i \in 1 .. Len(file) : f[i] = file[i]
  BY LandedEffect DEF TypeInv, TypeOK
<1> HIDE DEF f
<1>2. ASSUME NEW i \in 1 .. Len(f)
      PROVE  f[i] # None /\ f[i].prev = PreviousHash(f, i)
  <2>1. CASE i = Len(file) + 1
    <3>1. CASE file = <<>>
      BY <1>1, <2>1, <3>1 DEF LastHash, PreviousHash
    <3>2. CASE file # <<>>
      <4>1. Len(file) \in 1 .. Len(file)
        BY <3>2, EmptySeq DEF TypeInv, TypeOK
      <4>2. PreviousHash(f, i) = file[Len(file)].event
        BY <1>1, <2>1, <4>1 DEF PreviousHash
      <4> QED
        BY <1>1, <2>1, <3>2, <4>2 DEF LastHash
    <3> QED
      BY <3>1, <3>2
  <2>2. CASE i # Len(file) + 1
    <3>1. i \in 1 .. Len(file)
      BY <1>1, <2>2
    <3>2. PreviousHash(f, i) = PreviousHash(file, i)
      BY <1>1, <3>1 DEF PreviousHash
    <3> QED
      BY <1>1, <3>1, <3>2 DEF Verifies, Readable
  <2> QED
    BY <2>1, <2>2
<1> QED
  BY <1>2 DEF f, Verifies, Readable

(* No line that lands makes a chain verify that did not. *)
LEMMA DamageStays ==
    ASSUME TypeInv, NEW line \in Line, Verifies(Landed(line))
    PROVE  Verifies(file)
<1>1. ~cut /\ Readable(file)
  BY ReadableBefore DEF Verifies
<1>2. /\ Len(file) \in Nat /\ Len(Landed(line)) = Len(file) + 1
      /\ \A i \in 1 .. Len(file) : Landed(line)[i] = file[i]
  BY <1>1, LandedEffect DEF TypeInv, TypeOK
<1>3. ASSUME NEW i \in 1 .. Len(file) PROVE file[i].prev = PreviousHash(file, i)
  <2>1. Landed(line)[i].prev = PreviousHash(Landed(line), i)
    BY <1>2 DEF Verifies
  <2> QED
    BY <1>2, <2>1 DEF PreviousHash
<1> QED
  BY <1>1, <1>3 DEF Verifies

-----------------------------------------------------------------------------
(* One call at a time *)

(* The append that is under way is alone and holds the hash of the line    *)
(* the file ends with.                                                     *)
LoneWriter ==
    Serial => \A d, e \in Events : pc[d] = "write" /\ pc[e] = "write" => d = e

WriterHoldsTail ==
    Serial /\ Readable(file) =>
        \A e \in Events : pc[e] = "write" => last[e] = LastHash(file)

ChainInv == TypeInv /\ LoneWriter /\ WriterHoldsTail /\ ReadableIsChained

LEMMA ChainInit == Init => ChainInv
<1> SUFFICES ASSUME Init PROVE ChainInv
  OBVIOUS
<1>1. LoneWriter /\ WriterHoldsTail
  BY DEF Init, LoneWriter, WriterHoldsTail
<1>2. Verifies(file)
  <2>1. Len(file) = 0
    BY EmptySeq DEF Init
  <2> QED
    BY <2>1 DEF Verifies, Readable
<1> QED
  BY <1>1, <1>2, TypeInit DEF ChainInv, ReadableIsChained

(* A writer's line lands on a chain it continues. *)
LEMMA WriterContinues ==
    ASSUME ChainInv, Serial, NEW e \in Events, pc[e] = "write",
           Readable(Landed(Written(e)))
    PROVE  Verifies(Landed(Written(e)))
<1>1. ~cut /\ Readable(file)
  BY WrittenType, ReadableBefore DEF ChainInv
<1>2. Verifies(file) /\ last[e] = LastHash(file)
  BY <1>1 DEF ChainInv, ReadableIsChained, WriterHoldsTail
<1> QED
  BY <1>1, <1>2, WrittenType, ChainGrows DEF ChainInv

LEMMA ChainStep ==
    ASSUME ChainInv, [Next]_vars
    PROVE  ChainInv'
<1>1. TypeInv'
  BY TypeStep DEF ChainInv
<1>2. CASE UNCHANGED vars
  BY <1>1, <1>2 DEF ChainInv, LoneWriter, WriterHoldsTail, ReadableIsChained,
     Readable, Verifies, LastHash, PreviousHash, vars
<1>3. ASSUME NEW e \in Events, ReadLast(e) PROVE ChainInv'
  <2>1. UNCHANGED file /\ ReadableIsChained'
    BY <1>3 DEF ReadLast, ChainInv, ReadableIsChained, Readable, Verifies,
       PreviousHash
  <2>2. ASSUME Serial, NEW d \in Events, pc'[d] = "write" PROVE d = e
    BY <1>3, <2>2 DEF ReadLast, ChainInv, TypeInv, TypeOK
  <2>3. ASSUME pc'[e] = "write" PROVE last'[e] = LastHash(file)'
    BY <1>3, <2>1, <2>3 DEF ReadLast, ChainInv, TypeInv, TypeOK, LastHash
  <2> QED
    BY <1>1, <2>1, <2>2, <2>3 DEF ChainInv, LoneWriter, WriterHoldsTail
<1>4. ASSUME NEW e \in Events, Write(e) \/ WriteFails(e) \/ Crash
      PROVE  ChainInv'
  <2>1. ASSUME Serial, NEW d \in Events PROVE pc'[d] # "write"
    BY <1>4, <2>1 DEF Write, WriteFails, Crash, ChainInv, LoneWriter, TypeInv,
       TypeOK
  <2>2. PICK d \in Events :
          /\ pc[d] = "write"
          /\ \/ UNCHANGED file
             \/ file' = Landed(None)
             \/ file' = Landed(Written(d))
    BY <1>4 DEF Write, WriteFails, Crash, BreakOff
  <2>3. ASSUME Serial, Readable(file)' PROVE Verifies(file)'
    <3>1. CASE UNCHANGED file
      BY <2>3, <3>1 DEF ChainInv, ReadableIsChained, Readable, Verifies,
         PreviousHash
    <3>2. CASE file' = Landed(None)
      BY <2>3, <3>2, ReadableBefore DEF ChainInv, Readable, Line
    <3>3. CASE file' = Landed(Written(d))
      BY <2>2, <2>3, <3>3, WriterContinues DEF Readable, Verifies, PreviousHash
    <3> QED
      BY <2>2, <3>1, <3>2, <3>3
  <2> QED
    BY <1>1, <2>1, <2>3 DEF ChainInv, LoneWriter, WriterHoldsTail,
       ReadableIsChained
<1>5. Next => \E e \in Events : ReadLast(e) \/ Write(e) \/ WriteFails(e) \/ Crash
  BY DEF Next, Crash
<1> QED
  BY <1>2, <1>3, <1>4, <1>5

LEMMA ChainInvariant == Spec => []ChainInv
<1>1. ChainInv /\ [Next]_vars => ChainInv'
  BY ChainStep
<1> QED
  BY <1>1, ChainInit, PTL DEF Spec

(* One call at a time, whatever the disk does and however often the        *)
(* process stops: a ledger that can be read is a chain without gap or fork.*)
THEOREM SerialLedgerIsChained == Spec => []ReadableIsChained
<1>1. ChainInv => ReadableIsChained
  BY DEF ChainInv
<1> QED
  BY <1>1, ChainInvariant, PTL

-----------------------------------------------------------------------------
(* What returned *)

(* An append returns with the step that lands its line. *)
LEMMA ReturnSteps ==
    ASSUME TypeInv, [Next]_vars, NEW d \in Events, pc'[d] = "returned"
    PROVE  pc[d] = "returned" \/ file' = Landed(Written(d))
<1>1. CASE UNCHANGED vars
  BY <1>1 DEF vars
<1>2. ASSUME NEW e \in Events, ReadLast(e) PROVE pc[d] = "returned"
  BY <1>2 DEF ReadLast, TypeInv, TypeOK
<1>3. ASSUME NEW e \in Events, Write(e)
      PROVE  pc[d] = "returned" \/ file' = Landed(Written(d))
  BY <1>3 DEF Write, TypeInv, TypeOK
<1>4. ASSUME NEW e \in Events, WriteFails(e) PROVE pc[d] = "returned"
  BY <1>4 DEF WriteFails, TypeInv, TypeOK
<1>5. ASSUME Crash PROVE pc[d] = "returned"
  BY <1>5 DEF Crash, TypeInv, TypeOK
<1> QED
  BY <1>1, <1>2, <1>3, <1>4, <1>5 DEF Next

(* Where a line lands and the file can still be read, nothing else moves.  *)
LEMMA LandedReadable ==
    ASSUME TypeInv, NEW line \in Line, Readable(Landed(line))
    PROVE  /\ Len(Landed(line)) = Len(file) + 1
           /\ Landed(line)[Len(file) + 1] = line
           /\ \A i \in 1 .. Len(file) : Landed(line)[i] = file[i]
           /\ Readable(file)
BY LandedEffect DEF Readable

LEMMA ReturnedStep ==
    ASSUME TypeInv, ReturnedIsOnRecord, [Next]_vars
    PROVE  ReturnedIsOnRecord'
<1> SUFFICES ASSUME NEW d \in Events, pc'[d] = "returned", Readable(file')
             PROVE  \E i \in 1 .. Len(file') : file'[i].event = d
  BY DEF ReturnedIsOnRecord
<1>0. Len(file) \in Nat
  BY DEF TypeInv, TypeOK
<1>1. CASE file' = Landed(Written(d))
  <2>1. Written(d) \in Line /\ Written(d).event = d
    BY WrittenType
  <2>2. Len(file') = Len(file) + 1 /\ file'[Len(file) + 1] = Written(d)
    BY <1>1, <2>1, LandedReadable
  <2> QED
    BY <1>0, <2>1, <2>2
<1>2. CASE pc[d] = "returned" /\ UNCHANGED file
  BY <1>2 DEF ReturnedIsOnRecord
<1>3. ASSUME pc[d] = "returned", NEW line \in Line, file' = Landed(line)
      PROVE  \E i \in 1 .. Len(file') : file'[i].event = d
  <2>1. /\ Len(file') = Len(file) + 1 /\ Readable(file)
        /\ \A i \in 1 .. Len(file) : file'[i] = file[i]
    BY <1>3, LandedReadable
  <2>2. PICK i \in 1 .. Len(file) : file[i].event = d
    BY <1>3, <2>1 DEF ReturnedIsOnRecord
  <2> QED
    BY <1>0, <2>1, <2>2
<1> QED
  BY <1>1, <1>2, <1>3, ReturnSteps, FileSteps

(* An append that returned is on record for whoever can read the file,     *)
(* however appends interleave and whatever fails.                          *)
THEOREM ReturnedStaysOnRecord == Spec => []ReturnedIsOnRecord
<1>1. Init => ReturnedIsOnRecord
  BY DEF Init, ReturnedIsOnRecord
<1>2. TypeInv /\ ReturnedIsOnRecord /\ [Next]_vars => ReturnedIsOnRecord'
  BY ReturnedStep
<1> QED
  BY <1>1, <1>2, TypeInvariant, PTL DEF Spec

-----------------------------------------------------------------------------
(* The refinement of AppendOnlyLog *)

(* A line is of an append that is over. *)
Over == {"returned", "raised", "lost"}

Accounted ==
    \A i \in 1 .. Len(file) : file[i] # None => pc[file[i].event] \in Over

(* Where nothing can break the file, it is whole. *)
Undamaged == ~MayBreak => ~cut /\ Readable(file)

RefInv == ChainInv /\ Accounted /\ Undamaged

LEMMA RefInit == Init => RefInv
<1> SUFFICES ASSUME Init PROVE Accounted /\ Undamaged
  BY ChainInit DEF RefInv
<1>1. Len(file) = 0 /\ ~cut
  BY EmptySeq DEF Init
<1> QED
  BY <1>1 DEF Accounted, Undamaged, Readable

(* The file changes by a line of an append under way, which is then over.  *)
LEMMA LineSteps ==
    ASSUME TypeInv, [Next]_vars
    PROVE  /\ \A d \in Events : pc[d] \in Over => pc'[d] \in Over
           /\ \/ UNCHANGED <<file, cut>>
              \/ \E e \in Events :
                    /\ pc[e] = "write" /\ pc'[e] \in Over
                    /\ \/ file' = Landed(None) /\ MayBreak
                       \/ file' = Landed(Written(e)) /\ (MayBreak \/ ~cut')
<1>1. ASSUME NEW e \in Events, ReadLast(e)
      PROVE  UNCHANGED <<file, cut>> /\ \A d \in Events : pc[d] \in Over => pc'[d] \in Over
  BY <1>1 DEF ReadLast, Over, TypeInv, TypeOK
<1>2. ASSUME NEW e \in Events, Write(e)
      PROVE  /\ pc[e] = "write" /\ pc'[e] \in Over
             /\ file' = Landed(Written(e)) /\ ~cut'
             /\ \A d \in Events : pc[d] \in Over => pc'[d] \in Over
  BY <1>2 DEF Write, Over, TypeInv, TypeOK
<1>3. ASSUME NEW e \in Events, WriteFails(e)
      PROVE  /\ pc[e] = "write" /\ pc'[e] \in Over /\ BreakOff(e) /\ MayBreak
             /\ \A d \in Events : pc[d] \in Over => pc'[d] \in Over
  BY <1>3 DEF WriteFails, Over, MayBreak, TypeInv, TypeOK
<1>4. ASSUME Crash
      PROVE  /\ \E e \in Events :
                   pc[e] = "write" /\ pc'[e] \in Over /\ BreakOff(e) /\ MayBreak
             /\ \A d \in Events : pc[d] \in Over => pc'[d] \in Over
  BY <1>4 DEF Crash, Over, MayBreak, TypeInv, TypeOK
<1>5. CASE UNCHANGED vars
  BY <1>5 DEF vars, Over
<1> QED
  BY <1>1, <1>2, <1>3, <1>4, <1>5 DEF Next, BreakOff

LEMMA RefStep ==
    ASSUME RefInv, [Next]_vars
    PROVE  RefInv'
<1>1. TypeInv /\ ChainInv'
  BY ChainStep DEF RefInv, ChainInv
<1>2. Accounted'
  <2>1. CASE UNCHANGED <<file, cut>>
    <3> SUFFICES ASSUME NEW i \in 1 .. Len(file), file[i] # None
                 PROVE  pc'[file[i].event] \in Over
      BY <2>1 DEF Accounted
    <3>1. file[i].event \in Events
      BY <1>1, ElementOfSeq DEF TypeInv, TypeOK, Entry
    <3> QED
      BY <1>1, <2>1, <3>1, LineSteps DEF RefInv, Accounted
  <2>2. ASSUME NEW e \in Events, pc'[e] \in Over, NEW line \in {None, Written(e)},
               file' = Landed(line)
        PROVE  Accounted'
    <3> SUFFICES ASSUME NEW i \in 1 .. Len(file'), file'[i] # None
                 PROVE  pc'[file'[i].event] \in Over
      BY DEF Accounted
    <3>1. line \in Line
      BY <1>1, WrittenType DEF Line
    <3>2. Len(file) \in Nat
      BY <1>1 DEF TypeInv, TypeOK
    <3>3. \/ i \in 1 .. Len(file) /\ file'[i] = file[i]
          \/ file'[i] = line
      <4>1. CASE cut
        BY <1>1, <2>2, <3>1, <3>2, <4>1, LandedExcept
      <4>2. CASE ~cut
        BY <1>1, <2>2, <3>1, <3>2, <4>2, LandedEffect
      <4> QED
        BY <4>1, <4>2
    <3>4. CASE i \in 1 .. Len(file) /\ file'[i] = file[i]
      <4>1. file[i].event \in Events
        BY <1>1, <3>4, ElementOfSeq DEF TypeInv, TypeOK, Entry
      <4> QED
        BY <1>1, <3>4, <4>1, LineSteps DEF RefInv, Accounted
    <3>5. CASE file'[i] = line
      <4>1. line = Written(e)
        BY <3>5
      <4> QED
        BY <2>2, <3>5, <4>1 DEF Written
    <3> QED
      BY <3>3, <3>4, <3>5
  <2> QED
    BY <1>1, <2>1, <2>2, LineSteps
<1>3. Undamaged'
  <2> SUFFICES ASSUME ~MayBreak PROVE ~cut' /\ Readable(file')
    BY DEF Undamaged, MayBreak, Readable
  <2>1. ~cut /\ Readable(file)
    BY DEF RefInv, Undamaged
  <2>2. CASE UNCHANGED <<file, cut>>
    BY <2>1, <2>2
  <2>3. ASSUME NEW e \in Events, file' = Landed(Written(e)), ~cut'
        PROVE  ~cut' /\ Readable(file')
    <3>1. Written(e) \in Line /\ Written(e) # None /\ Len(file) \in Nat
      BY <1>1, WrittenType DEF TypeInv, TypeOK
    <3> QED
      BY <1>1, <2>1, <2>3, <3>1, LandedEffect DEF Readable
  <2> QED
    BY <1>1, <2>2, <2>3, LineSteps
<1> QED
  BY <1>1, <1>2, <1>3 DEF RefInv

LEMMA ReadType ==
    ASSUME NEW f \in Seq(Line), Readable(f)
    PROVE  /\ [i \in 1 .. Len(f) |-> f[i].event] \in Seq(Events \cup {None})
           /\ Len([i \in 1 .. Len(f) |-> f[i].event]) = Len(f)
           /\ \A i \in 1 .. Len(f) : f[i].event \in Events
<1>1. Len(f) \in Nat
  OBVIOUS
<1>2. \A i \in 1 .. Len(f) : f[i].event \in Events
  BY ElementOfSeq DEF Readable, Line, Entry
<1> QED
  BY <1>1, <1>2

(* A line that lands on a chain and leaves a chain joins its event. *)
LEMMA LandingJoins ==
    ASSUME RefInv, NEW e \in Events, pc[e] = "write",
           file' = Landed(Written(e)), Verifies(file), Verifies(file')
    PROVE  Abstract!Join(e)
<1> DEFINE old == [i \in 1 .. Len(file) |-> file[i].event]
           new == [i \in 1 .. Len(file') |-> file'[i].event]
<1>1. TypeInv /\ file \in Seq(Line) /\ Readable(file) /\ Len(file) \in Nat
  BY DEF RefInv, ChainInv, TypeInv, TypeOK, Line, Verifies
<1>2. /\ Written(e) \in Line /\ Written(e).event = e /\ ~cut
  BY <1>1, WrittenType, ReadableBefore DEF Verifies
<1>3. /\ file' \in Seq(Line) /\ Readable(file') /\ Len(file') = Len(file) + 1
      /\ file'[Len(file) + 1] = Written(e)
      /\ \A i \in 1 .. Len(file) : file'[i] = file[i]
  BY <1>1, <1>2, LandedEffect DEF Verifies
<1>4. VerifiedRead = old /\ VerifiedRead' = new
  BY DEF VerifiedRead, Verifies, Readable, PreviousHash
<1>5. /\ old \in Seq(Events \cup {None}) /\ Len(old) = Len(file)
      /\ \A i \in 1 .. Len(file) : old[i] \in Events
  BY <1>1, ReadType
<1>6. new \in Seq(Events \cup {None}) /\ Len(new) = Len(file')
  BY <1>3, ReadType
<1>7. old # Failure
  BY <1>5, LedgerAssumption DEF Failure
<1>8. \A i \in DOMAIN old : old[i] # e
  BY <1>1 DEF RefInv, Accounted, Over, Readable
<1>9. /\ Append(old, e) \in Seq(Events \cup {None})
      /\ Len(Append(old, e)) = Len(old) + 1
      /\ Append(old, e)[Len(old) + 1] = e
      /\ \A i \in 1 .. Len(old) : Append(old, e)[i] = old[i]
  BY <1>5, AppendProperties
<1>10. new = Append(old, e)
  <2>1. ASSUME NEW i \in 1 .. Len(new) PROVE new[i] = Append(old, e)[i]
    <3>1. new[i] = file'[i].event
      BY <1>6
    <3>2. CASE i = Len(file) + 1
      BY <1>2, <1>3, <1>5, <1>9, <3>1, <3>2
    <3>3. CASE i # Len(file) + 1
      <4>1. i \in 1 .. Len(file)
        BY <1>1, <1>3, <1>6, <3>3
      <4> QED
        BY <1>3, <1>5, <1>9, <3>1, <4>1
    <3> QED
      BY <3>2, <3>3
  <2> HIDE DEF old, new
  <2> QED
    BY <1>1, <1>3, <1>5, <1>6, <1>9, <2>1, SeqEqual
<1> HIDE DEF old, new
<1> QED
  BY <1>4, <1>7, <1>8, <1>10 DEF Abstract!Join

(* The ledger implements AppendOnlyLog, for any number of events: with     *)
(* concurrent appends, failing disks and crashes the log may break, and    *)
(* breaks for ever; one call at a time, with none of these, it never does. *)
THEOREM LedgerIsAppendOnlyLog == Spec => IsAppendOnlyLog
<1>1. Init => Abstract!Init
  <2> SUFFICES ASSUME Init PROVE VerifiedRead = <<>>
    BY DEF Abstract!Init
  <2>1. Len(file) = 0 /\ file \in Seq(Line) /\ Readable(file) /\ Verifies(file)
    BY EmptySeq DEF Init, Readable, Verifies
  <2>2. [i \in 1 .. Len(file) |-> file[i].event] = <<>>
    BY <2>1, ReadType, EmptySeq
  <2> QED
    BY <2>1, <2>2 DEF VerifiedRead
<1>2. RefInv /\ [Next]_vars => RefInv'
  BY RefStep
<1>3. RefInv /\ RefInv' /\ [Next]_vars => [Abstract!Next]_VerifiedRead
  <2> SUFFICES ASSUME RefInv, RefInv', [Next]_vars
               PROVE  [Abstract!Next]_VerifiedRead
    OBVIOUS
  <2>1. CASE UNCHANGED <<file, cut>>
    BY <2>1 DEF VerifiedRead, Verifies, Readable, PreviousHash
  <2>2. ASSUME NEW e \in Events, pc[e] = "write",
               NEW line \in {None, Written(e)}, file' = Landed(line)
        PROVE  [Abstract!Next]_VerifiedRead
    <3>1. TypeInv /\ line \in Line
      BY WrittenType DEF RefInv, ChainInv, Line
    <3>2. CASE Verifies(file')
      <4>1. Verifies(file) /\ line # None
        BY <2>2, <3>1, <3>2, DamageStays, ReadableBefore DEF Verifies
      <4> QED
        BY <2>2, <3>2, <4>1, LandingJoins DEF Abstract!Next
    <3>3. CASE ~Verifies(file')
      <4>1. MayBreak
        BY <3>3 DEF RefInv, Undamaged, MayBreak, ChainInv, ReadableIsChained,
           Verifies, Readable, PreviousHash
      <4>2. VerifiedRead' = Failure
        BY <3>3 DEF VerifiedRead, Verifies, Readable, PreviousHash, Failure
      <4> QED
        BY <4>1, <4>2 DEF Abstract!Next, Abstract!Break
    <3> QED
      BY <3>2, <3>3
  <2> QED
    BY <2>1, <2>2, LineSteps DEF RefInv, ChainInv
<1> QED
  BY <1>1, <1>2, <1>3, RefInit, PTL DEF Spec, IsAppendOnlyLog, Abstract!Spec

-----------------------------------------------------------------------------
(***************************************************************************)
(* The evidence of a run, which RunEvidence keeps with an audit ledger of  *)
(* its cycles' events: every step of it is one of the ledger, or leaves    *)
(* the ledger alone, so what holds of the ledger holds here.               *)
(***************************************************************************)
LEMMA EvidenceLedgerSteps ==
    ASSUME [EvidenceNext]_evidenceVars
    PROVE  [Next]_vars
<1>1. evidenceVars' = evidenceVars => UNCHANGED vars
  BY DEF evidenceVars, vars
<1>2. HostCrash => [Next]_vars
  BY DEF HostCrash, LedgerStops, Next
<1>3. \A m : CreateRunManifest(m) => UNCHANGED vars
  BY DEF CreateRunManifest
<1>4. \A c : LinkCycleToAudit(c) => UNCHANGED vars
  BY DEF LinkCycleToAudit
<1> QED
  BY <1>1, <1>2, <1>3, <1>4 DEF EvidenceNext, Next

(* The ledger that cycles are linked to is an audit ledger, whatever the   *)
(* log and the evidence store do beside it: so all that is proved of one   *)
(* holds of it (run_evidence.py reads the file that ledger.py writes).     *)
THEOREM EvidenceKeepsALedger == EvidenceSpec => Spec
<1>1. EvidenceInit => Init
  BY DEF EvidenceInit
<1> QED
  BY <1>1, EvidenceLedgerSteps, PTL DEF EvidenceSpec, Spec

-----------------------------------------------------------------------------
(* The log, beside the ledger *)

LogLine == CapturedLogEntry \cup {None}

Reads(lines) == \A i \in 1 .. Len(lines) : lines[i] # None

LogTypeInv ==
    /\ LogTypeOK
    /\ open => entries # <<>>
    /\ \A c \in Events : batch[c] \in {"append", "returned"} => first[c] # 0

(* What lines make of the log: they follow what is there, or nobody reads  *)
(* it any more.                                                            *)
LEMMA BehindEffect ==
    ASSUME LogTypeInv, NEW lines \in Seq(LogLine), lines # <<>>
    PROVE  /\ Behind(lines) \in Seq(LogLine)
           /\ Len(entries) <= Len(Behind(lines))
           /\ Behind(lines) # <<>>
           /\ Reads(Behind(lines)) =>
                 /\ Behind(lines) = entries \o lines
                 /\ Reads(entries)
<1> DEFINE log == Behind(lines)
           m == Len(entries)
           n == Len(lines)
<1>1. entries \in Seq(LogLine) /\ None \in LogLine
  BY DEF LogTypeInv, LogTypeOK, LogLine
<1>2. m \in Nat /\ n \in Nat \ {0}
  BY <1>1, EmptySeq
<1>3. CASE ~open
  <2>1. log = entries \o lines
    BY <1>3 DEF Behind
  <2>2. /\ log \in Seq(LogLine) /\ Len(log) = m + n
        /\ \A i \in 1 .. m + n : log[i] = IF i <= m THEN entries[i] ELSE lines[i - m]
    BY <1>1, <2>1, ConcatProperties
  <2> HIDE DEF log, m, n
  <2>3. m <= Len(log) /\ Len(log) # 0
    BY <1>2, <2>2
  <2>4. ASSUME Reads(log), NEW i \in 1 .. m PROVE entries[i] # None
    <3>1. i \in 1 .. Len(log) /\ log[i] = entries[i]
      BY <1>2, <2>2
    <3> QED
      BY <2>4, <3>1 DEF Reads
  <2>5. Reads(log) => Reads(entries)
    BY <2>4 DEF Reads, m
  <2>6. log # <<>>
    BY <2>2, <2>3, EmptySeq
  <2> QED
    BY <2>1, <2>2, <2>3, <2>5, <2>6 DEF log, m
<1>4. CASE open
  <2>1. entries # <<>> /\ m \in 1 .. m
    BY <1>1, <1>4, EmptySeq DEF LogTypeInv
  <2> DEFINE spoilt == [entries EXCEPT ![m] = None]
  <2>2. /\ spoilt \in Seq(LogLine) /\ Len(spoilt) = m /\ spoilt[m] = None
    BY <1>1, <2>1, ExceptSeq
  <2> DEFINE rest == Tail(lines)
  <2>3. rest \in Seq(LogLine)
    BY HeadTailProperties
  <2>4. log = spoilt \o rest
    BY <1>4 DEF Behind
  <2> HIDE DEF spoilt, rest, log, m, n
  <2>0. /\ spoilt \o rest \in Seq(LogLine)
        /\ Len(spoilt \o rest) = Len(spoilt) + Len(rest)
        /\ \A i \in 1 .. Len(spoilt) + Len(rest) :
              (spoilt \o rest)[i] =
                 IF i <= Len(spoilt) THEN spoilt[i] ELSE rest[i - Len(spoilt)]
    BY <2>2, <2>3, ConcatProperties
  <2>5. /\ log \in Seq(LogLine) /\ Len(log) = m + Len(rest)
        /\ \A i \in 1 .. m + Len(rest) :
              log[i] = IF i <= m THEN spoilt[i] ELSE rest[i - m]
    BY <2>0, <2>2, <2>4
  <2>6. Len(rest) \in Nat
    BY <2>3
  <2>7. m \in 1 .. Len(log) /\ log[m] = None /\ m <= Len(log)
    BY <1>2, <2>1, <2>2, <2>5, <2>6
  <2>8. ~Reads(log)
    BY <2>7 DEF Reads
  <2>9. log # <<>>
    BY <2>5, <2>7, EmptySeq
  <2> QED
    BY <2>5, <2>7, <2>8, <2>9 DEF log, m
<1> QED
  BY <1>3, <1>4

(* The lines that call c sends to the log, all n of them. *)
LEMMA CapturedLines ==
    ASSUME LogTypeInv, NEW c \in Events, batch[c] = "append", NEW n \in Nat
    PROVE  /\ Captured(c, n) \in Seq(LogLine)
           /\ Len(Captured(c, n)) = n
           /\ \A k \in 1 .. n :
                 Captured(c, n)[k] = [by |-> c, sequence |-> first[c] + k - 1]
<1>1. first[c] \in Nat \ {0}
  BY DEF LogTypeInv, LogTypeOK
<1>2. ASSUME NEW k \in 1 .. n
      PROVE  [by |-> c, sequence |-> first[c] + k - 1] \in LogLine
  <2>1. first[c] + k - 1 \in Nat \ {0}
    BY <1>1
  <2> QED
    BY <2>1 DEF LogLine, CapturedLogEntry
<1> QED
  BY <1>2 DEF Captured

(* What a write that may break off leaves of a call's lines: a part of     *)
(* them, with or without a line that does not parse.                       *)
Sends(c, lines) ==
    /\ lines \in Seq(LogLine) /\ lines # <<>>
    /\ \/ None \in {lines[i] : i \in 1 .. Len(lines)}
       \/ \E n \in 1 .. EntriesPerBatch : lines = Captured(c, n)

(* How the log changes: only by the lines of a call that appends.          *)
LogMoves(c) ==
    \/ entries' = entries /\ open' = open
    \/ /\ batch[c] = "append" /\ open' \in BOOLEAN
       /\ \E lines : Sends(c, lines) /\ entries' = Behind(lines)

LEMMA BrokenLines ==
    ASSUME LogTypeInv, LogConstants,
           NEW c \in Events, batch[c] = "append", BreaksOff(c)
    PROVE  LogMoves(c)
<1>1. EntriesPerBatch \in Nat \ {0}
  BY DEF LogConstants
<1>2. CASE UNCHANGED <<entries, open>>
  BY <1>2 DEF LogMoves
<1>3. ASSUME NEW n \in 1 .. EntriesPerBatch,
             entries' = Behind(Captured(c, n)),
             open' \in BOOLEAN
      PROVE  LogMoves(c)
  <2> DEFINE lines == Captured(c, n)
  <2>1. lines \in Seq(LogLine) /\ Len(lines) = n
    BY <1>1, CapturedLines
  <2>2. lines # <<>>
    <3> HIDE DEF lines
    <3> QED
      BY <1>1, <2>1, EmptySeq
  <2>3. Sends(c, lines)
    BY <2>1, <2>2 DEF Sends
  <2> HIDE DEF lines
  <2> QED
    BY <1>3, <2>3 DEF LogMoves, lines
<1>4. ASSUME NEW n \in 0 .. EntriesPerBatch - 1,
             entries' = Behind(Append(Captured(c, n), None)),
             open' = TRUE
      PROVE  LogMoves(c)
  <2> DEFINE whole == Captured(c, n)
             lines == Append(whole, None)
  <2>1. whole \in Seq(LogLine) /\ Len(whole) = n /\ n \in Nat
    BY <1>1, CapturedLines
  <2>2. None \in LogLine
    BY DEF LogLine
  <2> HIDE DEF whole
  <2>3. /\ lines \in Seq(LogLine) /\ lines # <<>> /\ Len(lines) = n + 1
        /\ lines[n + 1] = None
    BY <2>1, <2>2, AppendProperties
  <2> HIDE DEF lines
  <2>4. n + 1 \in 1 .. Len(lines)
    BY <2>1, <2>3
  <2>5. Sends(c, lines)
    BY <2>3, <2>4 DEF Sends
  <2>6. entries' = Behind(lines)
    BY <1>4 DEF lines, whole
  <2> QED
    BY <1>4, <2>5, <2>6 DEF LogMoves
<1> QED
  BY <1>2, <1>3, <1>4 DEF BreaksOff

LEMMA MovesEffect ==
    ASSUME LogTypeInv, NEW c \in Events, LogMoves(c)
    PROVE  /\ entries' \in Seq(LogLine) /\ open' \in BOOLEAN
           /\ open' => entries' # <<>>
           /\ entries # <<>> => entries' # <<>>
           /\ Reads(entries') =>
                 \/ entries' = entries
                 \/ /\ batch[c] = "append" /\ Reads(entries)
                    /\ \E n \in 1 .. EntriesPerBatch :
                          entries' = entries \o Captured(c, n)
<1>1. entries \in Seq(LogLine) /\ open \in BOOLEAN /\ (open => entries # <<>>)
  BY DEF LogTypeInv, LogTypeOK, LogLine
<1>2. CASE entries' = entries /\ open' = open
  BY <1>1, <1>2
<1>3. ASSUME batch[c] = "append", open' \in BOOLEAN,
             NEW lines, Sends(c, lines), entries' = Behind(lines)
      PROVE  /\ entries' \in Seq(LogLine) /\ entries' # <<>>
             /\ Reads(entries') =>
                   /\ Reads(entries)
                   /\ \E n \in 1 .. EntriesPerBatch :
                         entries' = entries \o Captured(c, n)
  <2>1. lines \in Seq(LogLine) /\ lines # <<>>
    BY <1>3 DEF Sends
  <2>2. /\ entries' \in Seq(LogLine) /\ entries' # <<>>
        /\ Reads(entries') => entries' = entries \o lines /\ Reads(entries)
    BY <1>3, <2>1, BehindEffect
  <2>3. ASSUME Reads(entries'), NEW i \in 1 .. Len(lines) PROVE lines[i] # None
    <3> DEFINE m == Len(entries)
               log == entries \o lines
    <3>1. log \in Seq(LogLine) /\ Len(log) = m + Len(lines)
          /\ \A j \in 1 .. m + Len(lines) :
                log[j] = IF j <= m THEN entries[j] ELSE lines[j - m]
      BY <1>1, <2>1, ConcatProperties
    <3>2. m \in Nat /\ Len(lines) \in Nat
      BY <1>1, <2>1
    <3>3. entries' = log
      BY <2>2, <2>3
    <3> HIDE DEF m, log
    <3>4. m + i \in 1 .. Len(log) /\ log[m + i] = lines[i]
      BY <3>1, <3>2
    <3> QED
      BY <2>3, <3>3, <3>4 DEF Reads
  <2>4. ASSUME Reads(entries')
        PROVE  \E n \in 1 .. EntriesPerBatch : lines = Captured(c, n)
    BY <1>3, <2>3, <2>4 DEF Sends
  <2> QED
    BY <2>2, <2>4
<1> QED
  BY <1>2, <1>3 DEF LogMoves

(* A step is one of the log's, or leaves the log alone.                    *)
LEMMA LogSteps ==
    ASSUME [EvidenceNext]_evidenceVars
    PROVE  \/ UNCHANGED <<bundle, entries, open, batch, first>>
           \/ /\ \E c \in Events :
                    \/ FindBundle(c) \/ CreateBundle(c)
                    \/ NumberEntries(c)
                    \/ AppendEntries(c) \/ AppendFails(c)
           \/ LogStops
BY DEF EvidenceNext, evidenceVars, logVars, LogNext, HostCrash,
   CreateRunManifest, LinkCycleToAudit

(* The steps that may write to the log, or end a call without a window.    *)
LEMMA WritingSteps ==
    ASSUME LogTypeInv, LogConstants
    PROVE  /\ \A c \in Events :
                 /\ AppendEntries(c) =>
                       /\ batch[c] = "append" /\ LogMoves(c)
                       /\ entries' =
                             Behind(Captured(c, EntriesPerBatch))
                 /\ AppendFails(c) => batch[c] = "append" /\ LogMoves(c)
           /\ LogStops =>
                 \/ entries' = entries /\ open' = open
                 \/ \E c \in Events : batch[c] = "append" /\ LogMoves(c)
<1>1. ASSUME NEW c \in Events, AppendEntries(c)
      PROVE  /\ batch[c] = "append" /\ LogMoves(c)
             /\ entries' = Behind(Captured(c, EntriesPerBatch))
  <2>1. /\ batch[c] = "append" /\ open' = FALSE
        /\ entries' = Behind(Captured(c, EntriesPerBatch))
    BY <1>1 DEF AppendEntries
  <2>2. EntriesPerBatch \in 1 .. EntriesPerBatch
    BY DEF LogConstants
  <2>3. BreaksOff(c)
    BY <2>1, <2>2 DEF BreaksOff
  <2> QED
    BY <2>1, <2>3, BrokenLines
<1>2. ASSUME NEW c \in Events, AppendFails(c)
      PROVE  batch[c] = "append" /\ LogMoves(c)
  BY <1>2, BrokenLines DEF AppendFails
<1>3. ASSUME LogStops
      PROVE  \/ entries' = entries /\ open' = open
             \/ \E c \in Events : batch[c] = "append" /\ LogMoves(c)
  BY <1>3, BrokenLines DEF LogStops
<1> QED
  BY <1>1, <1>2, <1>3

LEMMA LogTypeInit == LogConstants /\ EvidenceInit => LogTypeInv
<1> SUFFICES ASSUME LogInit PROVE LogTypeInv
  BY DEF EvidenceInit
<1>1. entries \in Seq(LogLine) /\ ~open
  BY DEF LogInit
<1> QED
  BY <1>1 DEF LogInit, LogTypeInv, LogTypeOK, LogLine, LogBundle

LEMMA LogTypeStep ==
    ASSUME LogTypeInv, LogConstants, [EvidenceNext]_evidenceVars
    PROVE  LogTypeInv'
<1> DEFINE Places == {"idle", "create", "number", "append",
                      "returned", "raised", "lost"}
<1>1. /\ bundle \in {None, Torn, "bundle"} /\ batch \in [Events -> Places]
      /\ first \in [Events -> Nat]
      /\ entries \in Seq(LogLine) /\ open \in BOOLEAN /\ (open => entries # <<>>)
      /\ \A d \in Events : batch[d] \in {"append", "returned"} => first[d] # 0
  BY DEF LogTypeInv, LogTypeOK, LogLine, LogBundle
<1>2. /\ entries' \in Seq(LogLine) /\ open' \in BOOLEAN
      /\ open' => entries' # <<>>
  <2>1. \/ entries' = entries /\ open' = open
        \/ \E c \in Events : LogMoves(c)
    BY LogSteps, WritingSteps DEF FindBundle, CreateBundle, NumberEntries
  <2> QED
    BY <1>1, <2>1, MovesEffect
<1>3. bundle' \in {None, Torn, "bundle"}
  BY <1>1, LogSteps DEF FindBundle, CreateBundle, NumberEntries, AppendEntries,
     AppendFails, LogStops
<1>4. /\ batch' \in [Events -> Places] /\ first' \in [Events -> Nat]
      /\ \A d \in Events : batch'[d] \in {"append", "returned"} => first'[d] # 0
  <2>1. CASE UNCHANGED <<batch, first>>
    BY <1>1, <2>1
  <2>2. ASSUME NEW c \in Events,
               FindBundle(c) \/ CreateBundle(c)
        PROVE  /\ first' = first
               /\ \E at \in {"create", "number", "raised"} :
                     batch' = [batch EXCEPT ![c] = at]
    BY <2>2 DEF FindBundle, CreateBundle, Becomes
  <2>3. ASSUME NEW c \in Events, AppendEntries(c) \/ AppendFails(c)
        PROVE  /\ first' = first /\ batch[c] = "append"
               /\ \E at \in {"returned", "raised"} :
                     batch' = [batch EXCEPT ![c] = at]
    BY <2>3 DEF AppendEntries, AppendFails, Becomes
  <2>4. ASSUME NEW c \in Events, NumberEntries(c)
        PROVE  \/ first' = first /\ batch' = [batch EXCEPT ![c] = "raised"]
               \/ /\ batch' = [batch EXCEPT ![c] = "append"]
                  /\ \E n \in Nat \ {0} : first' = [first EXCEPT ![c] = n]
    <3>1. CASE ~LogReadable
      BY <2>4, <3>1 DEF NumberEntries, Becomes
    <3>2. CASE LogReadable
      <4>1. NextSequence \in Nat \ {0}
        <5>1. CASE entries = <<>>
          BY <5>1 DEF NextSequence
        <5>2. CASE entries # <<>>
          <6>1. Len(entries) \in 1 .. Len(entries)
            BY <1>1, <5>2, EmptySeq
          <6>2. entries[Len(entries)] \in CapturedLogEntry
            BY <1>1, <3>2, <6>1, ElementOfSeq DEF LogReadable, LogLine
          <6>3. entries[Len(entries)].sequence \in Nat
            BY <6>2 DEF CapturedLogEntry
          <6> QED
            BY <5>2, <6>3 DEF NextSequence
        <5> QED
          BY <5>1, <5>2
      <4> QED
        BY <2>4, <3>2, <4>1 DEF NumberEntries, Becomes
    <3> QED
      BY <3>1, <3>2
  <2>5. ASSUME LogStops
        PROVE  /\ first' = first
               /\ \A d \in Events : batch'[d] \in {"lost", batch[d]}
               /\ batch' \in [Events -> Places]
    BY <1>1, <2>5 DEF LogStops
  <2>6. ASSUME NEW c \in Events, NEW at \in Places,
               batch' = [batch EXCEPT ![c] = at], first' = first,
               at \in {"append", "returned"} => batch[c] = "append"
        PROVE  /\ batch' \in [Events -> Places] /\ first' \in [Events -> Nat]
               /\ \A d \in Events :
                     batch'[d] \in {"append", "returned"} => first'[d] # 0
    BY <1>1, <2>6
  <2>7. ASSUME NEW c \in Events, NEW n \in Nat \ {0},
               batch' = [batch EXCEPT ![c] = "append"],
               first' = [first EXCEPT ![c] = n]
        PROVE  /\ batch' \in [Events -> Places] /\ first' \in [Events -> Nat]
               /\ \A d \in Events :
                     batch'[d] \in {"append", "returned"} => first'[d] # 0
    BY <1>1, <2>7
  <2>8. CASE LogStops
    BY <1>1, <2>5, <2>8
  <2>9. ASSUME NEW c \in Events,
               \/ FindBundle(c) \/ CreateBundle(c)
               \/ NumberEntries(c)
               \/ AppendEntries(c) \/ AppendFails(c)
        PROVE  /\ batch' \in [Events -> Places] /\ first' \in [Events -> Nat]
               /\ \A d \in Events :
                     batch'[d] \in {"append", "returned"} => first'[d] # 0
    BY <2>2, <2>3, <2>4, <2>6, <2>7, <2>9
  <2> QED
    BY <2>1, <2>8, <2>9, LogSteps
<1> QED
  BY <1>2, <1>3, <1>4 DEF LogTypeInv, LogTypeOK, LogLine, LogBundle

-----------------------------------------------------------------------------
(* One batch at a time, its lines are numbered by their places *)

LoneLogger ==
    Serial => \A c, d \in Events :
                  UnderWay(c) /\ UnderWay(d) => c = d

Numbered == \A i \in 1 .. Len(entries) : entries[i].sequence = i

(* The batch that is about to be appended has the numbers that follow.     *)
NextIsHeld ==
    \A c \in Events : batch[c] = "append" => first[c] = Len(entries) + 1

HoldsWindow(c) ==
    \A n \in first[c] .. first[c] + EntriesPerBatch - 1 :
        n \in 1 .. Len(entries) /\ entries[n].by = c

ReturnedWindow == \A c \in Events : batch[c] = "returned" => HoldsWindow(c)

WindowInv ==
    /\ LogTypeInv /\ LoneLogger
    /\ Serial /\ Reads(entries) => Numbered /\ NextIsHeld /\ ReturnedWindow

(* Lines that follow a numbered log go on with its numbers. *)
LEMMA LinesGoOn ==
    ASSUME WindowInv, Serial, Reads(entries), LogConstants,
           NEW c \in Events, batch[c] = "append",
           NEW n \in 1 .. EntriesPerBatch,
           entries' = entries \o Captured(c, n)
    PROVE  /\ Numbered'
           /\ \A i \in 1 .. Len(entries) :
                 i \in 1 .. Len(entries') /\ entries'[i] = entries[i]
           /\ Len(entries') = Len(entries) + n
           /\ \A i \in first[c] .. first[c] + n - 1 :
                 i \in 1 .. Len(entries') /\ entries'[i].by = c
<1> DEFINE m == Len(entries)
           lines == Captured(c, n)
           log == entries \o lines
<1>1. entries \in Seq(LogLine) /\ m \in Nat /\ n \in Nat
  BY DEF WindowInv, LogTypeInv, LogTypeOK, LogLine, LogConstants
<1>2. first[c] = m + 1 /\ Numbered
  BY DEF WindowInv, NextIsHeld
<1>3. lines \in Seq(LogLine) /\ Len(lines) = n
      /\ \A k \in 1 .. n : lines[k] = [by |-> c, sequence |-> first[c] + k - 1]
  BY <1>1, CapturedLines DEF WindowInv
<1> HIDE DEF lines
<1>4. Len(log) = m + Len(lines)
      /\ \A j \in 1 .. m + Len(lines) :
            log[j] = IF j <= m THEN entries[j] ELSE lines[j - m]
  BY <1>1, <1>3, ConcatProperties
<1>5. entries' = log
  BY DEF lines
<1> HIDE DEF log, m
<1>6. Len(log) = m + n
  BY <1>3, <1>4
<1>7. ASSUME NEW i \in 1 .. m PROVE i \in 1 .. Len(log) /\ log[i] = entries[i]
  BY <1>1, <1>3, <1>4
<1>8. ASSUME NEW i \in m + 1 .. m + n
      PROVE  i \in 1 .. Len(log) /\ log[i].by = c /\ log[i].sequence = i
  <2>1. i - m \in 1 .. n /\ i \in 1 .. m + n /\ ~(i <= m) /\ (m + 1) + (i - m) - 1 = i
    BY <1>1
  <2>2. log[i] = lines[i - m]
    BY <1>3, <1>4, <2>1
  <2>3. lines[i - m] = [by |-> c, sequence |-> i]
    BY <1>2, <1>3, <2>1
  <2> QED
    BY <1>6, <2>1, <2>2, <2>3
<1>9. ASSUME NEW i \in 1 .. Len(log) PROVE log[i].sequence = i
  <2>1. i \in 1 .. m \/ i \in m + 1 .. m + n
    BY <1>1, <1>6
  <2>2. CASE i \in 1 .. m
    BY <1>2, <1>7, <2>2 DEF Numbered, m
  <2>3. CASE i \in m + 1 .. m + n
    BY <1>8, <2>3
  <2> QED
    BY <2>1, <2>2, <2>3
<1>10. Numbered'
  BY <1>5, <1>9 DEF Numbered
<1>11. first[c] + n - 1 = m + n
  BY <1>1, <1>2
<1> QED
  BY <1>2, <1>5, <1>6, <1>7, <1>8, <1>10, <1>11 DEF m

(* A window stays where its batch put it. *)
LEMMA WindowStays ==
    ASSUME NEW d \in Events, HoldsWindow(d), first'[d] = first[d],
           \A i \in 1 .. Len(entries) :
              i \in 1 .. Len(entries') /\ entries'[i] = entries[i]
    PROVE  HoldsWindow(d)'
BY DEF HoldsWindow

LEMMA WindowInit == LogConstants /\ EvidenceInit => WindowInv
<1> SUFFICES ASSUME LogConstants, EvidenceInit PROVE WindowInv
  OBVIOUS
<1>1. LogTypeInv
  BY LogTypeInit
<1>2. \A c \in Events : batch[c] = "idle"
  BY DEF EvidenceInit, LogInit
<1>3. Len(entries) = 0
  BY EmptySeq DEF EvidenceInit, LogInit
<1> QED
  BY <1>1, <1>2, <1>3 DEF WindowInv, LoneLogger, UnderWay, Numbered,
     NextIsHeld, ReturnedWindow

LEMMA WindowStep ==
    ASSUME WindowInv, LogConstants, [EvidenceNext]_evidenceVars
    PROVE  WindowInv'
<1>1. LogTypeInv'
  BY LogTypeStep DEF WindowInv
<1>2. /\ batch \in [Events -> {"idle", "create", "number", "append",
                               "returned", "raised", "lost"}]
      /\ first \in [Events -> Nat] /\ entries \in Seq(LogLine)
      /\ Len(entries) \in Nat
  BY DEF WindowInv, LogTypeInv, LogTypeOK, LogLine
<1>3. CASE UNCHANGED <<bundle, entries, open, batch, first>>
  BY <1>1, <1>3 DEF WindowInv, LoneLogger, UnderWay, Numbered, NextIsHeld,
     ReturnedWindow, HoldsWindow, Reads
<1>4. ASSUME NEW c \in Events,
             \/ FindBundle(c) \/ CreateBundle(c)
             \/ NumberEntries(c)
      PROVE  WindowInv'
  <2>1. /\ entries' = entries
        /\ \A d \in Events : d # c => first'[d] = first[d] /\ batch'[d] = batch[d]
        /\ batch'[c] \in {"create", "number", "raised", "append"}
    BY <1>2, <1>4 DEF FindBundle, CreateBundle, NumberEntries, Becomes
  <2>2. LoneLogger'
    <3>1. \/ UnderWay(c)
          \/ Serial => \A d \in Events : ~UnderWay(d)
      BY <1>4 DEF FindBundle, CreateBundle, NumberEntries, UnderWay
    <3> QED
      BY <2>1, <3>1 DEF WindowInv, LoneLogger, UnderWay
  <2>3. ASSUME Serial, Reads(entries)
        PROVE  (Numbered /\ NextIsHeld /\ ReturnedWindow)'
    <3>1. Numbered /\ NextIsHeld /\ ReturnedWindow
      BY <2>3 DEF WindowInv
    <3>2. Numbered'
      BY <2>1, <3>1 DEF Numbered
    <3>3. ASSUME batch'[c] = "append" PROVE first'[c] = Len(entries) + 1
      <4>1. NumberEntries(c)
        BY <1>2, <1>4, <3>3 DEF FindBundle, CreateBundle, Becomes
      <4>2. first'[c] = NextSequence
        BY <1>2, <3>3, <4>1 DEF NumberEntries, Becomes
      <4>3. CASE entries = <<>>
        BY <4>2, <4>3, EmptySeq DEF NextSequence
      <4>4. CASE entries # <<>>
        <5>1. Len(entries) \in 1 .. Len(entries)
          BY <1>2, <4>4, EmptySeq
        <5> QED
          BY <3>1, <4>2, <4>4, <5>1 DEF NextSequence, Numbered
      <4> QED
        BY <4>3, <4>4
    <3>4. NextIsHeld'
      BY <2>1, <3>1, <3>3 DEF NextIsHeld
    <3>5. ASSUME NEW d \in Events, batch'[d] = "returned" PROVE HoldsWindow(d)'
      BY <2>1, <3>1, <3>5 DEF ReturnedWindow, HoldsWindow
    <3> QED
      BY <3>2, <3>4, <3>5 DEF ReturnedWindow
  <2>4. Reads(entries)' => Reads(entries)
    BY <2>1 DEF Reads
  <2> QED
    BY <1>1, <2>2, <2>3, <2>4 DEF WindowInv
<1>5. ASSUME NEW c \in Events, batch[c] = "append", LogMoves(c),
             first' = first,
             \A d \in Events : UnderWay(d)' => d # c /\ UnderWay(d),
             \A d \in Events : batch'[d] = "returned" =>
                \/ batch[d] = "returned"
                \/ d = c /\ entries' =
                      Behind(Captured(c, EntriesPerBatch))
      PROVE  WindowInv'
  <2>1. LoneLogger'
    BY <1>5 DEF WindowInv, LoneLogger
  <2>2. ASSUME Serial, Reads(entries')
        PROVE  (Numbered /\ NextIsHeld /\ ReturnedWindow)'
    <3>1. Reads(entries)
      BY <1>5, <2>2, MovesEffect DEF WindowInv
    <3>2. Numbered /\ NextIsHeld /\ ReturnedWindow
      BY <2>2, <3>1 DEF WindowInv
    <3>3. NextIsHeld'
      BY <1>5, <2>2 DEF WindowInv, LoneLogger, NextIsHeld, UnderWay
    <3>4. /\ Numbered'
          /\ \A i \in 1 .. Len(entries) :
                i \in 1 .. Len(entries') /\ entries'[i] = entries[i]
      <4>1. CASE entries' = entries
        BY <3>2, <4>1 DEF Numbered
      <4>2. ASSUME NEW n \in 1 .. EntriesPerBatch,
                   entries' = entries \o Captured(c, n)
            PROVE  /\ Numbered'
                   /\ \A i \in 1 .. Len(entries) :
                         i \in 1 .. Len(entries') /\ entries'[i] = entries[i]
        BY <1>5, <2>2, <3>1, <4>2, LinesGoOn
      <4> QED
        BY <1>5, <2>2, <4>1, <4>2, MovesEffect DEF WindowInv
    <3>5. ASSUME NEW d \in Events, batch'[d] = "returned" PROVE HoldsWindow(d)'
      <4>1. CASE batch[d] = "returned"
        BY <1>5, <3>2, <3>4, <4>1, WindowStays DEF ReturnedWindow
      <4>2. CASE d = c /\ entries' =
                    Behind(Captured(c, EntriesPerBatch))
        <5> DEFINE lines == Captured(c, EntriesPerBatch)
        <5>1. EntriesPerBatch \in 1 .. EntriesPerBatch /\ EntriesPerBatch \in Nat
          BY DEF LogConstants
        <5>2. lines \in Seq(LogLine) /\ Len(lines) = EntriesPerBatch
          BY <1>5, <5>1, CapturedLines DEF WindowInv
        <5> HIDE DEF lines
        <5>3. lines # <<>>
          BY <5>1, <5>2, EmptySeq
        <5>4. entries' = entries \o lines
          BY <2>2, <4>2, <5>2, <5>3, BehindEffect DEF WindowInv, lines
        <5>5. \A i \in first[c] .. first[c] + EntriesPerBatch - 1 :
                 i \in 1 .. Len(entries') /\ entries'[i].by = c
          BY <1>5, <2>2, <3>1, <5>1, <5>4, LinesGoOn DEF lines
        <5> QED
          BY <1>5, <4>2, <5>5 DEF HoldsWindow
      <4> QED
        BY <1>5, <3>5, <4>1, <4>2
    <3> QED
      BY <3>3, <3>4, <3>5 DEF ReturnedWindow
  <2>3. Reads(entries)' <=> Reads(entries')
    BY DEF Reads
  <2> QED
    BY <1>1, <2>1, <2>2, <2>3 DEF WindowInv
<1>6. ASSUME NEW c \in Events, AppendEntries(c) \/ AppendFails(c)
      PROVE  WindowInv'
  <2>1. batch[c] = "append" /\ LogMoves(c)
    BY <1>6, WritingSteps DEF WindowInv
  <2>2. /\ first' = first
        /\ \/ /\ batch' = [batch EXCEPT ![c] = "returned"]
              /\ entries' = Behind(Captured(c, EntriesPerBatch))
           \/ batch' = [batch EXCEPT ![c] = "raised"]
    BY <1>6 DEF AppendEntries, AppendFails, Becomes
  <2>3. \A d \in Events : UnderWay(d)' => d # c /\ UnderWay(d)
    BY <1>2, <2>2 DEF UnderWay
  <2>4. \A d \in Events : batch'[d] = "returned" =>
           \/ batch[d] = "returned"
           \/ d = c /\ entries' =
                 Behind(Captured(c, EntriesPerBatch))
    BY <1>2, <2>2
  <2> QED
    BY <1>5, <2>1, <2>2, <2>3, <2>4
<1>7. CASE LogStops
  <2>1. /\ first' = first
        /\ \A d \in Events : /\ ~UnderWay(d)'
                             /\ batch'[d] # "append"
                             /\ batch'[d] = "returned" => batch[d] = "returned"
    BY <1>2, <1>7 DEF LogStops, UnderWay
  <2>2. CASE entries' = entries /\ open' = open
    BY <1>1, <2>1, <2>2 DEF WindowInv, LoneLogger, Numbered, NextIsHeld,
       ReturnedWindow, HoldsWindow, Reads
  <2>3. ASSUME NEW c \in Events, batch[c] = "append", LogMoves(c)
        PROVE  WindowInv'
    BY <1>5, <2>1, <2>3
  <2> QED
    BY <1>7, <2>2, <2>3, WritingSteps DEF WindowInv
<1> QED
  BY <1>3, <1>4, <1>6, <1>7, LogSteps

-----------------------------------------------------------------------------
(* What a link says, and what it rests on *)

(* A link that can be read is the receipt of its batch, whose lines are in *)
(* the log, and of a run with a manifest; its event was appended.          *)
LinkHolds(c) ==
    \/ link[c] \in {None, Torn}
    \/ /\ link[c] = LogAppendReceipt(c)
       /\ batch[c] = "returned" /\ pc[c] = "returned"
       /\ manifest \in Manifests

EvidenceInv ==
    /\ WindowInv /\ TypeInv /\ ReturnedIsOnRecord
    /\ manifest \in RunStartManifest
    /\ DOMAIN link = Events /\ link = [c \in Events |-> link[c]]
    /\ \A c \in Events : LinkHolds(c)
    /\ \A c \in Events : batch[c] = "returned" => entries # <<>>

LEMMA EvidenceInvInit ==
    ASSUME EvidenceConstants, EvidenceInit
    PROVE  EvidenceInv
<1>1. WindowInv /\ TypeInv
  BY WindowInit, TypeInit DEF EvidenceConstants, EvidenceInit
<1>2. ReturnedIsOnRecord
  BY DEF EvidenceInit, Init, ReturnedIsOnRecord
<1> QED
  BY <1>1, <1>2 DEF EvidenceInv, EvidenceInit, LogInit, LinkHolds,
     RunStartManifest

(* What has returned is over, and its receipt does not change. *)
LEMMA ReceiptsStay ==
    ASSUME EvidenceInv, [EvidenceNext]_evidenceVars, NEW c \in Events
    PROVE  /\ batch[c] = "returned" =>
                 batch'[c] = "returned" /\ first'[c] = first[c]
           /\ pc[c] = "returned" => pc'[c] = "returned"
<1>1. /\ batch \in [Events -> {"idle", "create", "number", "append",
                               "returned", "raised", "lost"}]
      /\ first \in [Events -> Nat]
      /\ pc \in [Events -> {"idle", "write", "returned", "raised", "lost"}]
  BY DEF EvidenceInv, WindowInv, LogTypeInv, LogTypeOK, TypeInv, TypeOK
<1>2. batch[c] = "returned" =>
         batch'[c] = "returned" /\ first'[c] = first[c]
  BY <1>1, LogSteps DEF FindBundle, CreateBundle, NumberEntries, AppendEntries,
     AppendFails, LogStops, Becomes, UnderWay
<1>3. pc[c] = "returned" => pc'[c] = "returned"
  BY <1>1, EvidenceLedgerSteps DEF Next, vars, ReadLast, Write, WriteFails, Crash
<1> QED
  BY <1>2, <1>3

(* The log does not become empty again. *)
LEMMA LogKept ==
    ASSUME EvidenceInv, LogConstants,
           [EvidenceNext]_evidenceVars
    PROVE  /\ entries # <<>> => entries' # <<>>
           /\ \A c \in Events :
                 batch'[c] = "returned" => batch[c] = "returned" \/ entries' # <<>>
<1>1. LogTypeInv
  BY DEF EvidenceInv, WindowInv
<1>2. batch \in [Events -> {"idle", "create", "number", "append",
                            "returned", "raised", "lost"}]
  BY <1>1 DEF LogTypeInv, LogTypeOK
<1>3. \/ entries' = entries
      \/ \E d \in Events : LogMoves(d)
  BY <1>1, LogSteps, WritingSteps DEF FindBundle, CreateBundle, NumberEntries
<1>4. entries # <<>> => entries' # <<>>
  BY <1>1, <1>3, MovesEffect
<1>5. ASSUME NEW c \in Events, AppendEntries(c) PROVE entries' # <<>>
  <2> DEFINE lines == Captured(c, EntriesPerBatch)
  <2>1. EntriesPerBatch \in Nat \ {0} /\ batch[c] = "append"
        /\ entries' = Behind(lines)
    BY <1>5 DEF LogConstants, AppendEntries
  <2>2. lines \in Seq(LogLine) /\ Len(lines) = EntriesPerBatch
    BY <1>1, <2>1, CapturedLines
  <2> HIDE DEF lines
  <2>3. lines # <<>>
    BY <2>1, <2>2, EmptySeq
  <2> QED
    BY <1>1, <2>1, <2>2, <2>3, BehindEffect
<1>6. ASSUME NEW c \in Events, batch'[c] = "returned", batch[c] # "returned"
      PROVE  AppendEntries(c)
  BY <1>2, <1>6, LogSteps DEF FindBundle, CreateBundle, NumberEntries,
     AppendEntries, AppendFails, LogStops, Becomes, UnderWay
<1> QED
  BY <1>4, <1>5, <1>6

(* The manifest and the links are written where nothing was, and a link    *)
(* only when what it rests on is there.                                    *)
LEMMA PapersSteps ==
    ASSUME EvidenceInv, [EvidenceNext]_evidenceVars
    PROVE  /\ \/ manifest' = manifest
              \/ /\ manifest = None
                 /\ manifest' \in RunStartManifest
           /\ \/ link' = link
              \/ \E c \in Events :
                    /\ link[c] = None
                    /\ \E l : /\ link' = [link EXCEPT ![c] = l]
                              /\ \/ l \in {None, Torn}
                                 \/ /\ l = LogAppendReceipt(c)
                                    /\ Linkable(c)
                    /\ UNCHANGED <<batch, first, pc, manifest>>
              \/ \E c \in Events :
                    /\ link[c] = None
                    /\ link' = [link EXCEPT ![c] = Torn]
<1> DEFINE Goal ==
      /\ \/ manifest' = manifest
         \/ manifest = None /\ manifest' \in RunStartManifest
      /\ \/ link' = link
         \/ \E c \in Events :
               /\ link[c] = None
               /\ \E l : /\ link' = [link EXCEPT ![c] = l]
                         /\ \/ l \in {None, Torn}
                            \/ /\ l = LogAppendReceipt(c)
                               /\ Linkable(c)
               /\ UNCHANGED <<batch, first, pc, manifest>>
         \/ \E c \in Events :
               link[c] = None /\ link' = [link EXCEPT ![c] = Torn]
<1>1. ASSUME NEW m \in Manifests, CreateRunManifest(m) PROVE Goal
  BY <1>1 DEF CreateRunManifest, Left, RunStartManifest
<1>2. ASSUME NEW c \in Events, LinkCycleToAudit(c) PROVE Goal
  <2>1. /\ manifest' = manifest /\ batch' = batch /\ first' = first /\ pc' = pc
        /\ Linkable(c)
    BY <1>2 DEF LinkCycleToAudit, logVars, vars
  <2>2. PICK l \in Left(link[c], LogAppendReceipt(c)) :
           link' = [link EXCEPT ![c] = l]
    BY <1>2 DEF LinkCycleToAudit
  <2>3. CASE link[c] # None
    BY <2>1, <2>2, <2>3 DEF Left, EvidenceInv
  <2>4. CASE link[c] = None
    <3>1. l \in {None, Torn} \/ l = LogAppendReceipt(c)
      BY <2>2, <2>4 DEF Left
    <3> QED
      BY <2>1, <2>2, <2>4, <3>1
  <2> QED
    BY <2>3, <2>4
<1>3. CASE EvidenceStops
  BY <1>3 DEF EvidenceStops, papers, RunStartManifest
<1>4. CASE UNCHANGED <<manifest, link>>
  BY <1>4
<1>5. CASE LogNext /\ UNCHANGED <<vars, papers>>
  BY <1>4, <1>5 DEF papers
<1>6. CASE UNCHANGED <<logVars, papers>>
  BY <1>4, <1>6 DEF papers
<1>7. CASE UNCHANGED evidenceVars
  BY <1>4, <1>7 DEF evidenceVars, papers
<1>8. CASE EvidenceNext
  BY <1>1, <1>2, <1>3, <1>5, <1>6, <1>8 DEF EvidenceNext, HostCrash
<1> QED
  BY <1>7, <1>8

LEMMA EvidenceStep ==
    ASSUME EvidenceConstants, EvidenceInv,
           [EvidenceNext]_evidenceVars
    PROVE  EvidenceInv'
<1>1. WindowInv' /\ TypeInv' /\ ReturnedIsOnRecord'
  BY WindowStep, EvidenceLedgerSteps, TypeStep, ReturnedStep DEF EvidenceInv,
     EvidenceConstants
<1>2. /\ DOMAIN link = Events /\ link = [c \in Events |-> link[c]]
      /\ manifest \in RunStartManifest
      /\ \A c \in Events : LinkHolds(c)
      /\ None \notin Manifests /\ Torn \notin Manifests
  BY DEF EvidenceInv, EvidenceConstants
<1>3. \A c \in Events : batch'[c] = "returned" => entries' # <<>>
  BY LogKept DEF EvidenceInv, EvidenceConstants
<1>4. manifest' \in RunStartManifest'
      /\ (manifest \in Manifests => manifest' = manifest)
  BY <1>2, PapersSteps DEF RunStartManifest
<1>5. DOMAIN link' = Events /\ link' = [c \in Events |-> link'[c]]
  BY <1>2, PapersSteps
<1>6. ASSUME NEW c \in Events, link'[c] = link[c] PROVE LinkHolds(c)'
  <2>1. CASE link[c] \in {None, Torn}
    BY <1>6, <2>1 DEF LinkHolds
  <2>2. CASE link[c] \notin {None, Torn}
    <3>1. /\ link[c] = LogAppendReceipt(c) /\ manifest \in Manifests
          /\ batch[c] = "returned" /\ pc[c] = "returned"
      BY <1>2, <2>2 DEF LinkHolds
    <3>2. /\ batch'[c] = "returned" /\ first'[c] = first[c] /\ pc'[c] = "returned"
      BY <3>1, ReceiptsStay
    <3> QED
      BY <1>4, <1>6, <3>1, <3>2 DEF LinkHolds, LogAppendReceipt
  <2> QED
    BY <2>1, <2>2
<1>7. ASSUME NEW c \in Events, NEW l, link' = [link EXCEPT ![c] = l],
             \/ l \in {None, Torn}
             \/ l = LogAppendReceipt(c) /\ Linkable(c),
             UNCHANGED <<batch, first, pc, manifest>>
      PROVE  LinkHolds(c)'
  <2>1. link'[c] = l
    BY <1>2, <1>7
  <2>2. CASE l \in {None, Torn}
    BY <2>1, <2>2 DEF LinkHolds
  <2>3. CASE l = LogAppendReceipt(c) /\ Linkable(c)
    BY <1>2, <1>7, <2>1, <2>3 DEF LinkHolds, LogAppendReceipt, Linkable,
       ManifestReads, RunStartManifest
  <2> QED
    BY <1>7, <2>2, <2>3
<1>8. ASSUME NEW c \in Events, link' = [link EXCEPT ![c] = Torn]
      PROVE  LinkHolds(c)'
  <2>1. link'[c] = Torn
    BY <1>2, <1>8
  <2> QED
    BY <2>1 DEF LinkHolds
<1>9. ASSUME NEW c \in Events PROVE LinkHolds(c)'
  <2>1. ASSUME NEW d \in Events, NEW l, link' = [link EXCEPT ![d] = l], d # c
        PROVE  link'[c] = link[c]
    BY <1>2, <2>1
  <2> QED
    BY <1>6, <1>7, <1>8, <2>1, PapersSteps
<1> QED
  BY <1>1, <1>3, <1>4, <1>5, <1>9 DEF EvidenceInv

LEMMA EvidenceInvariant == EvidenceSpec => []EvidenceInv
<1>1. EvidenceInit => EvidenceInv
  BY EvidenceAssumption, EvidenceInvInit
<1>2. EvidenceInv /\ [EvidenceNext]_evidenceVars => EvidenceInv'
  BY EvidenceAssumption, EvidenceStep
<1> QED
  BY <1>1, <1>2, PTL DEF EvidenceSpec

-----------------------------------------------------------------------------
(* Theorems about the evidence of a run *)

(* The files of the evidence are what the code may leave in them, for any  *)
(* number of cycles and any size of a batch: a link names a window that    *)
(* begins and ends at a number from one on, and the ledger's own types     *)
(* hold beside it.                                                         *)
THEOREM EvidenceTypeCorrect == EvidenceSpec => []EvidenceTypeOK
<1>1. EvidenceInv => EvidenceTypeOK
  <2> SUFFICES ASSUME EvidenceInv PROVE EvidenceTypeOK
    OBVIOUS
  <2>1. LogTypeOK /\ TypeOK
    BY DEF EvidenceInv, WindowInv, LogTypeInv, TypeInv
  <2>2. ASSUME NEW c \in Events
        PROVE  link[c] \in CycleAuditLink \cup {None, Torn}
    <3>1. CASE link[c] \in {None, Torn}
      BY <3>1
    <3>2. CASE link[c] = LogAppendReceipt(c) /\ batch[c] = "returned"
      <4>1. first[c] \in Nat \ {0} /\ EntriesPerBatch \in Nat \ {0}
        BY <3>2, EvidenceAssumption DEF EvidenceInv, WindowInv, LogTypeInv,
           LogTypeOK, EvidenceConstants, LogConstants
      <4>2. first[c] + EntriesPerBatch - 1 \in Nat \ {0}
        BY <4>1
      <4> QED
        BY <3>2, <4>1, <4>2 DEF LogAppendReceipt, CycleAuditLink
    <3> QED
      BY <3>1, <3>2 DEF EvidenceInv, LinkHolds
  <2>3. link \in [Events -> CycleAuditLink \cup {None, Torn}]
    BY <2>2 DEF EvidenceInv
  <2> QED
    BY <2>1, <2>3 DEF EvidenceInv, EvidenceTypeOK
<1> QED
  BY <1>1, EvidenceInvariant, PTL

(* One call at a time, the window that a link names holds the lines of its *)
(* cycle and no others, for any number of cycles and any size of a batch,  *)
(* whatever write broke off and whenever the process stopped.              *)
THEOREM WindowsAreTheirOwn == EvidenceSpec => []WindowIsOwn
<1>1. EvidenceInv => WindowIsOwn
  <2> SUFFICES ASSUME EvidenceInv, Serial, LogReadable,
                      NEW c \in Linked,
                      NEW n \in link[c].start .. link[c].end
               PROVE  \E i \in 1 .. Len(entries) :
                         /\ entries[i] = [by |-> c, sequence |-> n]
                         /\ \A j \in 1 .. Len(entries) :
                               entries[j].sequence = n => j = i
    BY DEF WindowIsOwn
  <2>1. /\ c \in Events /\ batch[c] = "returned"
        /\ link[c] = [start |-> first[c], end |-> first[c] + EntriesPerBatch - 1]
    BY DEF EvidenceInv, LinkHolds, Linked, LogAppendReceipt
  <2>2. n \in first[c] .. first[c] + EntriesPerBatch - 1
    BY <2>1
  <2>3. Numbered /\ ReturnedWindow
    BY DEF EvidenceInv, WindowInv, LogReadable, Reads
  <2>4. n \in 1 .. Len(entries) /\ entries[n].by = c
    BY <2>1, <2>2, <2>3 DEF ReturnedWindow, HoldsWindow
  <2>5. \A j \in 1 .. Len(entries) : entries[j].sequence = j
    BY <2>3 DEF Numbered
  <2>6. entries[n] \in CapturedLogEntry
    BY <2>4, ElementOfSeq DEF EvidenceInv, WindowInv, LogTypeInv, LogTypeOK,
       LogReadable
  <2>7. entries[n] = [by |-> c, sequence |-> n]
    BY <2>4, <2>5, <2>6 DEF CapturedLogEntry
  <2> QED
    BY <2>4, <2>5, <2>7
<1> QED
  BY <1>1, EvidenceInvariant, PTL

(* A cycle that was linked can be proven whenever the audit chain verifies,*)
(* however calls interleave and whatever fails: the manifest is there, its *)
(* event is on the chain, and the log has entries.                         *)
THEOREM LinkedCanBeProven == EvidenceSpec => []LinkedIsProvable
<1>1. EvidenceInv => LinkedIsProvable
  <2> SUFFICES ASSUME EvidenceInv, Verifies(file),
                      NEW c \in Linked
               PROVE  Provable(c)
    BY DEF LinkedIsProvable
  <2>1. /\ c \in Events /\ batch[c] = "returned" /\ pc[c] = "returned"
        /\ manifest \in Manifests
    BY DEF EvidenceInv, LinkHolds, Linked
  <2>2. \E i \in 1 .. Len(file) : file[i].event = c
    BY <2>1 DEF EvidenceInv, ReturnedIsOnRecord, Verifies
  <2> QED
    BY <2>1, <2>2 DEF EvidenceInv, Provable
<1> QED
  BY <1>1, EvidenceInvariant, PTL

(* What has been proven stays proven by the same manifest and the same     *)
(* link, whatever is tried again: no step rewrites either, and no step     *)
(* takes an event off a chain that still verifies.                         *)
THEOREM ProofsStay == EvidenceSpec => ProvenStays
<1> DEFINE Stays(c) ==
      /\ UNCHANGED <<manifest, link[c]>>
      /\ Provable(c)' \/ ~Verifies(file)'
<1>1. ASSUME EvidenceInv, [EvidenceNext]_evidenceVars,
             NEW c \in Events, Provable(c)
      PROVE  Stays(c)
  <2>1. /\ manifest \in Manifests /\ link[c] \notin {None, Torn}
        /\ Verifies(file) /\ entries # <<>>
        /\ None \notin Manifests
    BY <1>1, EvidenceAssumption DEF Provable, Linked, EvidenceConstants
  <2>2. manifest' = manifest
    BY <1>1, <2>1, PapersSteps
  <2>3. link'[c] = link[c]
    <3>1. ASSUME NEW d \in Events, NEW l, link[d] = None,
                 link' = [link EXCEPT ![d] = l]
          PROVE  link'[c] = link[c]
      BY <1>1, <2>1, <3>1 DEF EvidenceInv
    <3> QED
      BY <1>1, <3>1, PapersSteps
  <2>4. entries' # <<>>
    BY <1>1, <2>1, EvidenceAssumption, LogKept DEF EvidenceConstants
  <2>5. ASSUME Verifies(file')
        PROVE  \E i \in 1 .. Len(file') : file'[i].event = c
    <3>1. PICK i \in 1 .. Len(file) : file[i].event = c
      BY <1>1 DEF Provable
    <3>2. TypeInv /\ [Next]_vars /\ Len(file) \in Nat
      BY <1>1, EvidenceLedgerSteps DEF EvidenceInv, TypeInv, TypeOK
    <3>3. CASE UNCHANGED <<file, cut>>
      BY <3>1, <3>3
    <3>4. ASSUME NEW line \in Line, file' = Landed(line)
          PROVE  \E j \in 1 .. Len(file') : file'[j].event = c
      <4>1. Len(file') = Len(file) + 1 /\ file'[i] = file[i]
        BY <2>5, <3>1, <3>2, <3>4, LandedReadable DEF Verifies
      <4>2. i \in 1 .. Len(file')
        BY <3>2, <4>1
      <4> QED
        BY <3>1, <4>1, <4>2
    <3> QED
      BY <3>2, <3>3, <3>4, FileSteps
  <2>6. c \in Linked'
    BY <2>1, <2>3 DEF Linked
  <2>7. ASSUME Verifies(file)' PROVE Provable(c)'
    BY <2>1, <2>2, <2>4, <2>5, <2>6, <2>7 DEF Provable
  <2> QED
    BY <2>2, <2>3, <2>7
<1>2. EvidenceInv /\ [EvidenceNext]_evidenceVars =>
         [\A c \in Events : Provable(c) =>
             /\ UNCHANGED <<manifest, link[c]>>
             /\ Provable(c)' \/ ~Verifies(file)'
         ]_evidenceVars
  BY <1>1
<1> QED
  BY <1>2, EvidenceInvariant, PTL DEF EvidenceSpec, ProvenStays

=============================================================================
