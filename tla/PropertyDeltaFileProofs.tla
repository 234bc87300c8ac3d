----------------------- MODULE PropertyDeltaFileProofs -----------------------
(***************************************************************************)
(* That a recorded delta file is whole, and that a store therefore refuses *)
(* to start only where it may, for every set of batches, every number of   *)
(* files and every number of faults.                                       *)
(***************************************************************************)
EXTENDS PropertyDeltaFile, TLAPS

\* What the run checks of recorded files is about stores that may rely on their device.
Reliable == durable \/ ~powerLost

Phases == {"idle", "write", "sync", "rename", "directory", "open", "record"}

CurrentImage == Image(given[Current], Current)

\* The types the argument needs, and how far the counter is ahead of the manifest.
Counted ==
    /\ durable \in BOOLEAN
    /\ pc \in Phases
    /\ store \in {"up", "down", "refused"}
    /\ store # "up" => pc = "idle"
    /\ generation \in Nat /\ generation > 0
    /\ DOMAIN recorded \subseteq Nat
    /\ DOMAIN recorded \subseteq DOMAIN given
    /\ \A g \in DOMAIN recorded : g < generation
    /\ pc # "idle" => /\ Current \in 1 .. MaxGeneration
                      /\ Current \in DOMAIN given
                      /\ given[Current] \in Batches
                      /\ \A g \in DOMAIN recorded : g < Current

\* What the call of Attach has done when it is at pc.
InTheMaking ==
    /\ pc = "write" => /\ Len(temp) \in Nat
                       /\ Len(temp) < Len(CurrentImage)
                       /\ temp = SubSeq(CurrentImage, 1, Len(temp))
    /\ pc \in {"sync", "rename"} => temp = CurrentImage
    /\ pc = "rename" => synced = durable
    /\ pc \in {"directory", "open", "record"} =>
          /\ Current \in DOMAIN files
          /\ files[Current].cells = CurrentImage
          /\ files[Current].synced = durable
    /\ pc \in {"open", "record"} /\ durable => files[Current].named

\* A recorded file: what was given, as recorded, and on the device if it has to be.
Whole(g) ==
    /\ files[g].cells = Image(given[g], g)
    /\ Validates(files[g].cells)
    /\ recorded[g] = Metadata(files[g].cells)
    /\ durable => files[g].synced /\ files[g].named

\* The inductive invariant.  A failed append may leave an entry without a file, never with a
\* wrong one.
IInv ==
    /\ Counted
    /\ InTheMaking
    /\ Reliable => \A g \in DOMAIN recorded \cap DOMAIN files : Whole(g)
    /\ Reliable /\ tail = "clean" => DOMAIN recorded \subseteq DOMAIN files
    /\ RefusedOnlyWhenAllowed

\* The first store has no files.
LEMMA InitIInv == Init => IInv
  BY BoundsAssumption
  DEF Init, IInv, Counted, InTheMaking, Reliable, RefusedOnlyWhenAllowed, Phases

\* Attach takes a generation no recorded file has.
LEMMA AttachIInv == ASSUME NEW b \in Batches, IInv, Attach(b) PROVE IInv'
  <1> DEFINE G == generation
  <1>1. /\ Current' = G /\ G \in Nat /\ G > 0 /\ G <= MaxGeneration
        /\ \A g \in DOMAIN recorded : g \in Nat /\ g < G
    BY DEF IInv, Counted, Attach, Current
  <1>2. /\ DOMAIN given' = DOMAIN given \cup {G}
        /\ given'[G] = b
        /\ \A g \in DOMAIN given : g # G => given'[g] = given[g]
    BY DEF Attach, With
  <1>3. Counted'
    BY <1>1, <1>2, BoundsAssumption DEF IInv, Counted, Attach, Phases
  <1>4. InTheMaking'
    <2>1. /\ Image(b, G) \in Seq(Range(Image(b, G)))
          /\ Len(Image(b, G)) >= 1
      BY <1>1, FormatAssumption, BoundsAssumption DEF Validates
    <2>2. CurrentImage' = Image(b, G) /\ temp' = <<>> /\ pc' = "write"
      BY <1>1, <1>2 DEF CurrentImage, Attach
    <2>3. Len(temp') = 0 /\ SubSeq(Image(b, G), 1, 0) = <<>>
      BY <2>1, <2>2
    <2> QED BY <2>1, <2>2, <2>3 DEF InTheMaking
  <1>5. \A g \in DOMAIN recorded : given'[g] = given[g]
    BY <1>1, <1>2 DEF IInv, Counted
  <1> QED BY <1>3, <1>4, <1>5 DEF IInv, Attach, Whole, Reliable, RefusedOnlyWhenAllowed

\* Write goes on where it was and ends with the whole image.
LEMMA WriteIInv == ASSUME IInv, Write PROVE IInv'
  <1> DEFINE I == CurrentImage
             n == Len(temp)
  <1>1. /\ Current' = Current /\ CurrentImage' = I
        /\ I \in Seq(Range(I))
    BY FormatAssumption DEF IInv, Counted, Write, Current, CurrentImage
  <1>2. n \in Nat /\ n < Len(I) /\ temp = SubSeq(I, 1, n)
    BY DEF IInv, InTheMaking, Write
  <1>3. temp' = Append(temp, I[n + 1]) /\ pc' = IF Len(temp') = Len(I) THEN "sync" ELSE "write"
    BY DEF Write, CurrentImage
  <1>4. temp' = SubSeq(I, 1, n + 1) /\ Len(temp') = n + 1
    <2> HIDE DEF I
    <2> QED BY <1>1, <1>2, <1>3
  <1>5. SubSeq(I, 1, Len(I)) = I /\ Len(I) \in Nat
    <2> HIDE DEF I
    <2> QED BY <1>1
  <1>6. Counted'
    BY <1>1, <1>3 DEF IInv, Counted, Write, Phases
  <1>7. InTheMaking'
    <2>1. CASE n + 1 = Len(I)
      <3>1. pc' = "sync" /\ temp' = I
        BY <1>3, <1>4, <1>5, <2>1
      <3> QED BY <1>1, <3>1 DEF InTheMaking
    <2>2. CASE n + 1 # Len(I)
      <3>1. pc' = "write" /\ n + 1 < Len(I)
        <4> HIDE DEF I, n
        <4>1. n + 1 < Len(I)
          <5>1. \A x, y \in Nat : x < y /\ x + 1 # y => x + 1 < y
            OBVIOUS
          <5>2. n \in Nat /\ Len(I) \in Nat /\ n < Len(I)
            BY <1>2, <1>5
          <5> QED BY <2>2, <5>1, <5>2
        <4>2. Len(temp') # Len(I)
          BY <1>4, <2>2
        <4>3. pc' = "write"
          BY <1>3, <4>2
        <4> QED BY <4>1, <4>3
      <3> QED BY <1>1, <1>2, <1>4, <3>1 DEF InTheMaking
    <2> QED BY <2>1, <2>2
  <1> QED BY <1>6, <1>7 DEF IInv, Write, Whole, Reliable, RefusedOnlyWhenAllowed

\* fdatasync, the rename and the directory's fsync put the image in its place.
LEMMA SyncAndCloseIInv == ASSUME IInv, SyncAndClose PROVE IInv'
  <1>1. Current' = Current /\ CurrentImage' = CurrentImage
    BY DEF SyncAndClose, Current, CurrentImage
  <1>2. Counted'
    BY <1>1 DEF IInv, Counted, SyncAndClose, Phases
  <1>3. InTheMaking'
    BY <1>1 DEF IInv, InTheMaking, SyncAndClose
  <1> QED BY <1>2, <1>3 DEF IInv, SyncAndClose, Whole, Reliable, RefusedOnlyWhenAllowed

LEMMA RenameIInv == ASSUME IInv, Rename PROVE IInv'
  <1>1. Current' = Current /\ CurrentImage' = CurrentImage
    BY DEF Rename, Current, CurrentImage
  <1>2. /\ DOMAIN files' = DOMAIN files \cup {Current}
        /\ files'[Current] = [cells |-> temp, synced |-> synced, named |-> FALSE]
        /\ \A g \in DOMAIN files : g # Current => files'[g] = files[g]
    BY DEF Rename, With
  <1>3. Counted'
    BY <1>1 DEF IInv, Counted, Rename, Phases
  <1>4. InTheMaking'
    BY <1>1, <1>2 DEF IInv, InTheMaking, Rename
  <1>5. \A g \in DOMAIN recorded : g # Current
    BY DEF IInv, Counted, Rename, Current
  <1>6. Reliable' => \A g \in DOMAIN recorded' \cap DOMAIN files' : Whole(g)'
    BY <1>2, <1>5 DEF IInv, Rename, Reliable, Whole
  <1>7. Reliable' /\ tail' = "clean" => DOMAIN recorded' \subseteq DOMAIN files'
    BY <1>2 DEF IInv, Rename, Reliable
  <1> QED BY <1>3, <1>4, <1>6, <1>7 DEF IInv, Rename, RefusedOnlyWhenAllowed

LEMMA SyncDirectoryIInv == ASSUME IInv, SyncDirectory PROVE IInv'
  <1>1. Current' = Current /\ CurrentImage' = CurrentImage
    BY DEF SyncDirectory, Current, CurrentImage
  <1>2. /\ DOMAIN files' = DOMAIN files
        /\ \A g \in DOMAIN files : /\ files'[g].cells = files[g].cells
                                   /\ files'[g].synced = files[g].synced
                                   /\ durable \/ files[g].named => files'[g].named
    BY DEF SyncDirectory
  <1>3. Counted'
    BY <1>1 DEF IInv, Counted, SyncDirectory, Phases
  <1>4. InTheMaking'
    BY <1>1, <1>2 DEF IInv, InTheMaking, SyncDirectory
  <1>5. Reliable' => \A g \in DOMAIN recorded' \cap DOMAIN files' : Whole(g)'
    BY <1>2 DEF IInv, SyncDirectory, Reliable, Whole
  <1> QED BY <1>2, <1>3, <1>4, <1>5 DEF IInv, SyncDirectory, Reliable, RefusedOnlyWhenAllowed

\* The file opens, since it is the image; opening changes nothing the invariant is about.
LEMMA OpenCreatedIInv == ASSUME IInv, OpenCreated PROVE IInv'
  <1>1. Current' = Current /\ CurrentImage' = CurrentImage
    BY DEF OpenCreated, Current, CurrentImage
  <1>2. pc' \in {"record", "idle"}
    BY DEF OpenCreated
  <1>3. Counted'
    BY <1>1, <1>2 DEF IInv, Counted, OpenCreated, Phases
  <1>4. InTheMaking'
    BY <1>1, <1>2 DEF IInv, InTheMaking, OpenCreated
  <1> QED BY <1>3, <1>4 DEF IInv, OpenCreated, Whole, Reliable, RefusedOnlyWhenAllowed

\* The file is recorded when it is in its place.
LEMMA RecordIInv == ASSUME IInv, Record PROVE IInv'
  <1>1. /\ DOMAIN recorded' = DOMAIN recorded \cup {Current}
        /\ recorded'[Current] = Metadata(files[Current].cells)
        /\ \A g \in DOMAIN recorded : g # Current => recorded'[g] = recorded[g]
    BY DEF Record, With
  <1>2. /\ Current \in DOMAIN files
        /\ files[Current].cells = Image(given[Current], Current)
        /\ Validates(files[Current].cells)
        /\ durable => files[Current].synced /\ files[Current].named
    BY FormatAssumption DEF IInv, Counted, InTheMaking, Record, CurrentImage
  <1>3. Counted'
    <2>1. Current \in Nat /\ Current < generation /\ Current \in DOMAIN given
      BY BoundsAssumption DEF IInv, Counted, Record, Current
    <2> QED BY <1>1, <2>1 DEF IInv, Counted, Record, Phases
  <1>4. InTheMaking'
    BY DEF InTheMaking, Record
  <1>5. Reliable' => \A g \in DOMAIN recorded' \cap DOMAIN files' : Whole(g)'
    BY <1>1, <1>2 DEF IInv, Record, Reliable, Whole
  <1>6. Reliable' /\ tail' = "clean" => DOMAIN recorded' \subseteq DOMAIN files'
    BY <1>1, <1>2 DEF IInv, Record, Reliable
  <1>7. RefusedOnlyWhenAllowed'
    BY DEF IInv, Counted, Record, RefusedOnlyWhenAllowed
  <1> QED BY <1>3, <1>4, <1>5, <1>6, <1>7 DEF IInv

\* A failed Create, or a crash, drops the temporary and no more.
LEMMA CallEndsIInv ==
  ASSUME IInv, CreateFails \/ CreatedIsLeft \/ Crash PROVE IInv'
  <1>1. /\ pc' = "idle" /\ store' \in {store, "down"}
        /\ UNCHANGED <<durable, generation, files, recorded, tail, given, powerLost>>
    BY DEF CreateFails, CreatedIsLeft, Crash
  <1>2. Counted' /\ InTheMaking'
    BY <1>1 DEF IInv, Counted, InTheMaking, Phases
  <1> QED BY <1>1, <1>2 DEF IInv, Whole, Reliable, RefusedOnlyWhenAllowed

\* A failed append leaves its entry or not, but never the file.
LEMMA RecordFailsIInv == ASSUME IInv, RecordFails PROVE IInv'
  <1>1. /\ DOMAIN files' = DOMAIN files \ {Current}
        /\ \A g \in DOMAIN files : g # Current => files'[g] = files[g]
    BY DEF RecordFails
  <1>2. /\ DOMAIN recorded' \subseteq DOMAIN recorded \cup {Current}
        /\ \A g \in DOMAIN recorded' : g # Current => g \in DOMAIN recorded /\ recorded'[g] = recorded[g]
    BY DEF RecordFails, With
  <1>3. tail' # "clean"
    BY DEF RecordFails
  <1>4. Counted'
    <2>1. Current \in Nat /\ Current < generation /\ Current \in DOMAIN given
      BY BoundsAssumption DEF IInv, Counted, RecordFails, Current
    <2> QED BY <1>2, <2>1 DEF IInv, Counted, RecordFails, Phases
  <1>5. InTheMaking'
    BY DEF InTheMaking, RecordFails
  <1>6. Reliable' => \A g \in DOMAIN recorded' \cap DOMAIN files' : Whole(g)'
    BY <1>1, <1>2 DEF IInv, RecordFails, Reliable, Whole
  <1> QED BY <1>3, <1>4, <1>5, <1>6 DEF IInv, RefusedOnlyWhenAllowed

\* With durability a power loss takes no recorded file and no cell of one.
LEMMA PowerLossIInv == ASSUME IInv, PowerLoss PROVE IInv'
  <1>1. DOMAIN recorded' \subseteq DOMAIN recorded /\ \A g \in DOMAIN recorded' : recorded'[g] = recorded[g]
    BY DEF PowerLoss
  <1>2. Counted' /\ InTheMaking'
    BY <1>1 DEF IInv, Counted, InTheMaking, PowerLoss, Phases
  <1>3. \A g \in DOMAIN files' :
           /\ g \in DOMAIN files
           /\ files'[g].cells \in Surviving(files[g])
           /\ files'[g].synced /\ files'[g].named
    BY DEF PowerLoss
  <1>4. \A g \in DOMAIN files : files[g].named => g \in DOMAIN files'
    BY DEF PowerLoss
  <1>5. ASSUME durable, NEW g \in DOMAIN recorded, g \in DOMAIN files
        PROVE  Whole(g) /\ g \in DOMAIN files' /\ files'[g].cells = files[g].cells
    <2>1. Whole(g)
      BY <1>5 DEF IInv, Reliable
    <2> QED BY <1>3, <1>4, <1>5, <2>1 DEF Whole, Surviving
  <1>6. Reliable' => durable
    BY DEF PowerLoss, Reliable
  <1>7. Reliable' => \A g \in DOMAIN recorded' \cap DOMAIN files' : Whole(g)'
    <2> SUFFICES ASSUME Reliable', NEW g \in DOMAIN recorded' \cap DOMAIN files' PROVE Whole(g)'
      OBVIOUS
    <2>1. Whole(g) /\ files'[g].cells = files[g].cells
      BY <1>1, <1>3, <1>5, <1>6
    <2> QED BY <1>1, <1>3, <2>1 DEF Whole, PowerLoss
  <1>8. Reliable' /\ tail' = "clean" => DOMAIN recorded' \subseteq DOMAIN files'
    BY <1>1, <1>5, <1>6 DEF IInv, Reliable, PowerLoss
  <1>9. RefusedOnlyWhenAllowed'
    BY DEF PowerLoss, RefusedOnlyWhenAllowed
  <1> QED BY <1>2, <1>7, <1>8, <1>9 DEF IInv

\* Recovery opens every recorded file, or an append had failed.
LEMMA RecoverIInv == ASSUME IInv, Recover PROVE IInv'
  <1>0. pc = "idle" /\ pc' = "idle"
    BY DEF IInv, Counted, Recover
  <1>1. CASE Recovers
    <2>1. /\ files' = [g \in DOMAIN recorded |-> files[g]]
          /\ recorded' = recorded
          /\ \A g \in DOMAIN recorded : g \in DOMAIN files
      BY <1>1 DEF Recover, Recovers
    <2>2. Counted'
      <3>1. PICK maximum \in {0} \cup DOMAIN recorded :
               /\ \A g \in DOMAIN recorded : g <= maximum
               /\ generation' = maximum + 1
        BY <1>1 DEF Recover
      <3>2. maximum \in Nat
        BY DEF IInv, Counted
      <3> QED BY <1>0, <1>1, <3>1, <3>2 DEF IInv, Counted, Recover, Phases
    <2>3. InTheMaking'
      BY <1>0 DEF InTheMaking
    <2>4. Reliable' => \A g \in DOMAIN recorded' \cap DOMAIN files' : Whole(g)'
      BY <2>1 DEF IInv, Recover, Reliable, Whole
    <2>5. RefusedOnlyWhenAllowed'
      BY <1>1 DEF Recover, RefusedOnlyWhenAllowed
    <2> QED BY <2>1, <2>2, <2>3, <2>4, <2>5 DEF IInv
  <1>2. CASE ~Recovers
    <2>1. /\ UNCHANGED <<durable, generation, files, recorded, tail, given, powerLost, pc>>
          /\ store' = "refused"
      BY <1>2 DEF Recover
    <2>2. Counted' /\ InTheMaking'
      BY <1>0, <2>1 DEF IInv, Counted, InTheMaking
    <2>3. Reliable /\ tail = "clean" => Recovers
      BY DEF IInv, Whole, Recovers
    <2>4. RefusedOnlyWhenAllowed'
      BY <1>2, <2>1, <2>3 DEF RefusedOnlyWhenAllowed, Reliable
    <2> QED BY <2>1, <2>2, <2>4 DEF IInv, Whole, Reliable
  <1> QED BY <1>1, <1>2

\* Every step keeps the invariant.
LEMMA NextIInv == IInv /\ [Next]_vars => IInv'
  <1> SUFFICES ASSUME IInv, [Next]_vars PROVE IInv'
    OBVIOUS
  <1>1. CASE UNCHANGED vars
    <2>1. CurrentImage' = CurrentImage /\ Current' = Current
      BY <1>1 DEF vars, CurrentImage, Current
    <2> QED BY <1>1, <2>1
        DEF vars, IInv, Counted, InTheMaking, Whole, Reliable, RefusedOnlyWhenAllowed
  <1>2. CASE Next
    BY <1>2, AttachIInv, WriteIInv, SyncAndCloseIInv, RenameIInv, SyncDirectoryIInv,
       OpenCreatedIInv, RecordIInv, CallEndsIInv, RecordFailsIInv, PowerLossIInv, RecoverIInv
    DEF Next
  <1> QED BY <1>1, <1>2

\* PropertyDeltaFile::Create, Attach and OpenAndRecover: whatever crashes, failed calls and
\* power losses happen between their steps, a recorded file is whole under its name, unless
\* an append to the manifest failed or power was lost without kProcessCrashSafe.
THEOREM RecordedFilesAreWhole == Spec => []RecordedIsWhole
  <1>1. IInv => RecordedIsWhole
    BY DEF IInv, RecordedIsWhole, Reliable, Whole
  <1> QED BY InitIInv, NextIInv, <1>1, PTL DEF Spec

\* OpenAndRecover fails only then.
THEOREM RefusalsAreAllowed == Spec => []RefusedOnlyWhenAllowed
  <1>1. IInv => RefusedOnlyWhenAllowed
    BY DEF IInv
  <1> QED BY InitIInv, NextIInv, <1>1, PTL DEF Spec
=============================================================================
