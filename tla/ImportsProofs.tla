---------------------------- MODULE ImportsProofs ---------------------------
(***************************************************************************)
(* Proofs about the loading of files, for every set of programs, with any  *)
(* number of files and declarations, and any imports between them.         *)
(***************************************************************************)
EXTENDS Imports, SequenceTheorems, TLAPS

Frames == [file : DOMAIN program, next : Nat]
FileLength(f) == Len(program[f])

(* What the fields hold.  An unreadable file is only marked on the way out.*)
LoadTypeOK ==
  /\ program \in Programs
  /\ stack \in Seq(Frames) /\ Len(stack) > 0
  /\ \A k \in 1..Len(stack) : stack[k].next \in 1..FileLength(stack[k].file) + 1
  /\ stack[1].file = Root
  /\ loaded \subseteq DOMAIN program

(* Each file under way was reached by the import its importer stands at.   *)
StackFollowsImports ==
  \A k \in 1..Len(stack) - 1 :
    LET f == stack[k].file
        n == stack[k].next
    IN  /\ n \in 1..FileLength(f)
        /\ program[f][n].kind = "import"
        /\ resolve_import_path(f.dir, program[f][n]) = stack[k + 1].file

(* A run ends well only with the root alone, at its end.                   *)
EndsAtTheRoot == phase = "done" => Len(stack) = 1 /\ AtEnd

RootIsNeverLoaded == Root \notin loaded

LoadInv ==
  /\ LoadTypeOK /\ StackFollowsImports /\ EndsAtTheRoot
  /\ MarksMatchTheStack /\ ImportsComeFirst /\ RootIsNeverLoaded

-----------------------------------------------------------------------------
LEMMA FileLengths ==
  ASSUME program \in Programs, NEW f \in DOMAIN program
  PROVE  FileLength(f) \in Nat
BY ProgramsAssumption, LenProperties DEF FileLength

LEMMA AdvancedFacts ==
  ASSUME NEW frames \in Seq(Frames), Len(frames) > 0
  PROVE  /\ Advanced(frames) \in Seq(Frames)
         /\ Len(Advanced(frames)) = Len(frames)
         /\ \A k \in 1..Len(frames) :
              /\ Advanced(frames)[k].file = frames[k].file
              /\ k < Len(frames) => Advanced(frames)[k].next = frames[k].next
         /\ Advanced(frames)[Len(frames)].next = frames[Len(frames)].next + 1
<1> DEFINE last == [frames[Len(frames)] EXCEPT !.next = @ + 1]
<1>1. Len(frames) \in 1..Len(frames) /\ Len(frames) \in Nat
  BY LenProperties
<1>2. frames[Len(frames)] \in Frames
  BY <1>1
<1>3. last \in Frames /\ last.file = frames[Len(frames)].file
                      /\ last.next = frames[Len(frames)].next + 1
  BY <1>2 DEF Frames
<1>4. Advanced(frames) = [frames EXCEPT ![Len(frames)] = last]
  BY DEF Advanced
<1> HIDE DEF last
<1>5. QED
  BY <1>1, <1>3, <1>4

LEMMA PushFacts ==
  ASSUME NEW frames \in Seq(Frames), NEW g \in DOMAIN program
  PROVE  /\ Append(frames, Frame(g)) \in Seq(Frames)
         /\ Len(Append(frames, Frame(g))) = Len(frames) + 1
         /\ \A k \in 1..Len(frames) : Append(frames, Frame(g))[k] = frames[k]
         /\ Append(frames, Frame(g))[Len(frames) + 1].file = g
         /\ Append(frames, Frame(g))[Len(frames) + 1].next = 1
<1>1. Frame(g) \in Frames /\ Frame(g).file = g /\ Frame(g).next = 1
  BY DEF Frame, Frames
<1>2. QED
  BY <1>1, AppendProperties

LEMMA PopFacts ==
  ASSUME NEW frames \in Seq(Frames), Len(frames) > 1
  PROVE  LET rest == SubSeq(frames, 1, Len(frames) - 1)
         IN  /\ rest \in Seq(Frames)
             /\ Len(rest) = Len(frames) - 1
             /\ \A k \in 1..Len(frames) - 1 : rest[k] = frames[k]
BY SubSeqProperties, LenProperties

-----------------------------------------------------------------------------
LEMMA LoadInitInv == LoadInit => LoadInv
<1> SUFFICES ASSUME LoadInit PROVE LoadInv
  OBVIOUS
<1> USE DEF LoadInit
<1>1. Frame(Root) \in Frames /\ Frame(Root).file = Root /\ Frame(Root).next = 1
  BY ProgramsAssumption DEF Frame, Frames
<1>2. stack \in Seq(Frames) /\ Len(stack) = 1 /\ stack[1] = Frame(Root)
  BY <1>1
<1>3. FileLength(Root) \in Nat
  BY FileLengths, ProgramsAssumption
<1>4. LoadTypeOK
  BY <1>1, <1>2, <1>3, ProgramsAssumption DEF LoadTypeOK
<1>5. StackFollowsImports /\ EndsAtTheRoot /\ MarksMatchTheStack /\ RootIsNeverLoaded
  BY <1>2 DEF StackFollowsImports, EndsAtTheRoot, MarksMatchTheStack, RootIsNeverLoaded
<1>6. ImportsComeFirst
  BY <1>1, <1>2 DEF ImportsComeFirst
<1>7. QED
  BY <1>4, <1>5, <1>6 DEF LoadInv

(* What is known of the file under way while the run goes on.              *)
LEMMA TopFacts ==
  ASSUME LoadInv
  PROVE  /\ Len(stack) \in Nat /\ Len(stack) \in 1..Len(stack)
         /\ Top \in Frames /\ Top.file \in DOMAIN program
         /\ FileLength(Top.file) \in Nat
         /\ Top.next \in 1..FileLength(Top.file) + 1
         /\ AtEnd <=> Top.next = FileLength(Top.file) + 1
<1>1. Len(stack) \in Nat /\ Len(stack) \in 1..Len(stack)
  BY LenProperties DEF LoadInv, LoadTypeOK
<1>2. Top \in Frames
  BY <1>1, ElementOfSeq DEF LoadInv, LoadTypeOK, Top
<1> HIDE DEF Top
<1>3. Top.file \in DOMAIN program
  BY <1>2 DEF Frames
<1>4. FileLength(Top.file) \in Nat
  BY <1>3, FileLengths DEF LoadInv, LoadTypeOK
<1>5. Top.next \in 1..FileLength(Top.file) + 1
  BY <1>1 DEF LoadInv, LoadTypeOK, Top
<1>6. AtEnd <=> Top.next = FileLength(Top.file) + 1
  BY <1>4, <1>5 DEF AtEnd, FileLength
<1>7. QED
  BY <1>1, <1>2, <1>3, <1>4, <1>5, <1>6

(* Going on to the next declaration is safe if the one gone past is no     *)
(* import, or imports a file that has been loaded.                         *)
LEMMA AdvanceInv ==
  ASSUME LoadInv, phase = "running", ~ AtEnd,
         Decl.kind = "import" => Target \in loaded,
         stack' = Advanced(stack), UNCHANGED <<program, loaded, loading, phase>>
  PROVE  LoadInv'
<1> DEFINE n == Len(stack)
<1>1. /\ n \in Nat /\ n \in 1..n /\ Top.file \in DOMAIN program
      /\ FileLength(Top.file) \in Nat
      /\ Top.next \in 1..FileLength(Top.file)
  BY TopFacts
<1>2. /\ stack' \in Seq(Frames) /\ Len(stack') = n
      /\ \A k \in 1..n : /\ stack'[k].file = stack[k].file
                         /\ k < n => stack'[k].next = stack[k].next
      /\ stack'[n].next = stack[n].next + 1
  BY AdvancedFacts DEF LoadInv, LoadTypeOK
<1>3. stack[n] = Top
  BY DEF Top
<1> HIDE DEF n
<1>4. LoadTypeOK'
  <2>1. \A k \in 1..n : stack'[k].next \in 1..FileLength(stack'[k].file) + 1
    <3> TAKE k \in 1..n
    <3>1. CASE k = n
      BY <1>1, <1>2, <1>3, <3>1
    <3>2. CASE k # n
      BY <1>1, <1>2, <3>2 DEF LoadInv, LoadTypeOK, n
    <3>3. QED
      BY <3>1, <3>2
  <2>2. stack'[1].file = Root
    BY <1>1, <1>2 DEF LoadInv, LoadTypeOK
  <2>3. QED
    BY <1>1, <1>2, <2>1, <2>2 DEF LoadInv, LoadTypeOK, Frames, FileLength
<1>5. StackFollowsImports'
  <2>1. \A k \in 1..n - 1 : /\ stack'[k].file = stack[k].file /\ stack'[k].next = stack[k].next
                            /\ stack'[k + 1].file = stack[k + 1].file
    BY <1>1, <1>2
  <2>2. \A k \in 1..n - 1 :
          /\ stack[k].next \in 1..FileLength(stack[k].file)
          /\ program[stack[k].file][stack[k].next].kind = "import"
          /\ resolve_import_path(stack[k].file.dir, program[stack[k].file][stack[k].next])
               = stack[k + 1].file
    BY DEF LoadInv, StackFollowsImports, n
  <2>3. QED
    BY <1>2, <2>1, <2>2 DEF StackFollowsImports, FileLength
<1>6. EndsAtTheRoot' /\ RootIsNeverLoaded'
  BY DEF LoadInv, EndsAtTheRoot, RootIsNeverLoaded
<1>7. MarksMatchTheStack'
  BY <1>1, <1>2 DEF LoadInv, MarksMatchTheStack, n
<1>8. ImportsComeFirst'
  <2> DEFINE Loaded(f, j) ==
        program[f][j].kind = "import" => resolve_import_path(f.dir, program[f][j]) \in loaded
  <2>1. \A k \in 1..n : \A j \in 1..stack[k].next - 1 : Loaded(stack[k].file, j)
    BY DEF LoadInv, ImportsComeFirst, n
  <2>2. Loaded(Top.file, Top.next)
    BY DEF Decl, Target
  <2>3. \A k \in 1..n : \A j \in 1..stack'[k].next - 1 : Loaded(stack'[k].file, j)
    <3> TAKE k \in 1..n
    <3> TAKE j \in 1..stack'[k].next - 1
    <3>1. CASE k = n
      BY <1>1, <1>2, <1>3, <2>1, <2>2, <3>1
    <3>2. CASE k # n
      BY <1>1, <1>2, <2>1, <3>2
    <3>3. QED
      BY <3>1, <3>2
  <2>4. \A f \in loaded : f \in DOMAIN program /\ ImportsOf(f) \subseteq loaded
    BY DEF LoadInv, ImportsComeFirst
  <2>5. QED
    BY <1>2, <2>3, <2>4 DEF ImportsComeFirst, ImportsOf
<1>9. QED
  BY <1>4, <1>5, <1>6, <1>7, <1>8 DEF LoadInv

(* An imported file starts on top of the file that imports it.             *)
LEMMA EnterInv ==
  ASSUME LoadInv, EnterImport
  PROVE  LoadInv'
<1> DEFINE n == Len(stack)
<1> USE DEF EnterImport, AtImport
<1>1. /\ n \in Nat /\ n \in 1..n /\ Top.file \in DOMAIN program
      /\ FileLength(Top.file) \in Nat
      /\ Top.next \in 1..FileLength(Top.file)
  BY TopFacts
<1>2. /\ stack' \in Seq(Frames) /\ Len(stack') = n + 1
      /\ \A k \in 1..n : stack'[k] = stack[k]
      /\ stack'[n + 1].file = Target /\ stack'[n + 1].next = 1
  BY PushFacts DEF LoadInv, LoadTypeOK
<1>3. stack[n] = Top
  BY DEF Top
<1>4. FileLength(Target) \in Nat
  BY FileLengths DEF LoadInv, LoadTypeOK
<1> HIDE DEF n
<1>5. \A k \in 1..n + 1 : k \in 1..n \/ k = n + 1
  BY <1>1
<1>6. LoadTypeOK'
  <2>1. \A k \in 1..n : stack[k].next \in 1..FileLength(stack[k].file) + 1
    BY DEF LoadInv, LoadTypeOK, n
  <2>2. \A k \in 1..n + 1 : stack'[k].next \in 1..FileLength(stack'[k].file) + 1
    BY <1>2, <1>4, <1>5, <2>1
  <2>3. stack'[1].file = Root
    BY <1>1, <1>2 DEF LoadInv, LoadTypeOK
  <2>4. QED
    BY <1>1, <1>2, <2>2, <2>3 DEF LoadInv, LoadTypeOK, Frames, FileLength
<1>7. StackFollowsImports'
  <2>1. \A k \in 1..n : k \in 1..n - 1 \/ k = n
    BY <1>1
  <2>2. /\ program[Top.file][Top.next].kind = "import"
        /\ resolve_import_path(Top.file.dir, program[Top.file][Top.next]) = Target
    BY DEF Decl, Target
  <2>3. \A k \in 1..n :
          /\ stack[k].next \in 1..FileLength(stack[k].file)
          /\ program[stack[k].file][stack[k].next].kind = "import"
          /\ resolve_import_path(stack[k].file.dir, program[stack[k].file][stack[k].next])
               = stack'[k + 1].file
    BY <1>1, <1>2, <1>3, <2>1, <2>2 DEF LoadInv, StackFollowsImports, n
  <2>4. Len(stack') - 1 = n
    BY <1>1, <1>2
  <2>5. QED
    BY <1>2, <2>3, <2>4 DEF StackFollowsImports, FileLength
<1>8. EndsAtTheRoot' /\ RootIsNeverLoaded'
  BY DEF LoadInv, EndsAtTheRoot, RootIsNeverLoaded
<1>9. MarksMatchTheStack'
  <2>1. /\ loading = {stack[k].file : k \in 2..n}
        /\ \A j, k \in 2..n : stack[j].file = stack[k].file => j = k
        /\ loaded \cap loading = {}
    BY DEF LoadInv, MarksMatchTheStack, n
  <2>2. \A k \in 2..n + 1 : k \in 2..n \/ k = n + 1
    BY <1>1
  <2>3. \A k \in 2..n : stack'[k] = stack[k] /\ stack[k].file # Target /\ k \in 2..n + 1
    BY <1>1, <1>2, <2>1
  <2>4. n + 1 \in 2..n + 1
    BY <1>1
  <2>5. loading' = {stack'[k].file : k \in 2..n + 1}
    BY <1>2, <2>1, <2>2, <2>3, <2>4
  <2>6. \A j, k \in 2..n + 1 : stack'[j].file = stack'[k].file => j = k
    BY <1>2, <2>1, <2>2, <2>3
  <2>7. QED
    BY <1>2, <2>1, <2>5, <2>6 DEF MarksMatchTheStack
<1>10. ImportsComeFirst'
  BY <1>1, <1>2, <1>5 DEF LoadInv, ImportsComeFirst, ImportsOf, n
<1>11. QED
  BY <1>6, <1>7, <1>8, <1>9, <1>10 DEF LoadInv

(* A file is left for its importer, which goes on after the import.        *)
LEMMA LeaveFacts ==
  ASSUME LoadInv, LeaveImport
  PROVE  /\ ImportsOf(Top.file) \subseteq loaded
         /\ Top.file \in DOMAIN program \ loaded
         /\ Top.file # Root
<1> DEFINE n == Len(stack)
<1> USE DEF LeaveImport
<1>1. /\ n \in Nat /\ n \in 2..n /\ Top.file \in DOMAIN program
      /\ FileLength(Top.file) \in Nat
      /\ Top.next = FileLength(Top.file) + 1
  BY TopFacts
<1>2. stack[n] = Top
  BY DEF Top
<1> HIDE DEF n
<1>3. \A j \in 1..FileLength(Top.file) :
        program[Top.file][j].kind = "import"
          => resolve_import_path(Top.file.dir, program[Top.file][j]) \in loaded
  <2>1. \A k \in 1..n : \A j \in 1..stack[k].next - 1 :
          program[stack[k].file][j].kind = "import"
            => resolve_import_path(stack[k].file.dir, program[stack[k].file][j]) \in loaded
    BY DEF LoadInv, ImportsComeFirst, n
  <2>2. n \in 1..n /\ Top.next - 1 = FileLength(Top.file)
    BY <1>1
  <2>3. QED
    BY <1>2, <2>1, <2>2
<1>4. ImportsOf(Top.file) \subseteq loaded
  BY <1>3 DEF ImportsOf, FileLength
<1>5. /\ loading = {stack[k].file : k \in 2..n}
      /\ loaded \cap loading = {}
  BY DEF LoadInv, MarksMatchTheStack, n
<1>6. Top.file \notin loaded
  BY <1>1, <1>2, <1>5
<1>7. Top.file # Root
  <2> SUFFICES ASSUME Top.file = Root PROVE FALSE
    OBVIOUS
  <2>1. 1 \in 1..n - 1 /\ 2 \in 2..n
    BY <1>1
  <2>2. /\ stack[1].file = Root
        /\ stack[1].next \in 1..FileLength(Root)
        /\ program[Root][stack[1].next].kind = "import"
        /\ resolve_import_path(Root.dir, program[Root][stack[1].next]) = stack[2].file
    BY <2>1 DEF LoadInv, LoadTypeOK, StackFollowsImports, n
  <2>3. stack[2].file \in loaded
    BY <1>3, <2>2
  <2>4. stack[2].file \in loading
    BY <1>5, <2>1
  <2>5. QED
    BY <1>5, <2>3, <2>4
<1>8. QED
  BY <1>1, <1>4, <1>6, <1>7

LEMMA LeaveInv ==
  ASSUME LoadInv, LeaveImport
  PROVE  LoadInv'
<1> DEFINE n == Len(stack)
           m == n - 1
<1> USE DEF LeaveImport
<1>1. n \in Nat /\ m \in 1..m /\ m \in Nat /\ n = m + 1
  BY TopFacts
<1> HIDE DEF m
<1>2. /\ stack' \in Seq(Frames) /\ Len(stack') = m
      /\ \A k \in 1..m : /\ stack'[k].file = stack[k].file
                         /\ k < m => stack'[k].next = stack[k].next
      /\ stack'[m].next = stack[m].next + 1
  <2> DEFINE rest == SubSeq(stack, 1, n - 1)
  <2>1. rest \in Seq(Frames) /\ Len(rest) = m /\ \A k \in 1..m : rest[k] = stack[k]
    BY PopFacts DEF LoadInv, LoadTypeOK, m
  <2>2. stack' = Advanced(rest) /\ Len(rest) > 0
    BY <1>1, <2>1
  <2> HIDE DEF rest
  <2>3. /\ stack' \in Seq(Frames) /\ Len(stack') = m
        /\ \A k \in 1..m : /\ stack'[k].file = rest[k].file
                           /\ k < m => stack'[k].next = rest[k].next
        /\ stack'[m].next = rest[m].next + 1
    BY <2>1, <2>2, AdvancedFacts
  <2>4. QED
    BY <1>1, <2>1, <2>3
<1>3. stack[n] = Top
  BY DEF Top
<1>4. /\ ImportsOf(Top.file) \subseteq loaded
      /\ Top.file \in DOMAIN program \ loaded
      /\ Top.file # Root
  BY LeaveFacts
<1> HIDE DEF n
<1>5. \A k \in 1..m :
        /\ stack[k].next \in 1..FileLength(stack[k].file)
        /\ program[stack[k].file][stack[k].next].kind = "import"
        /\ resolve_import_path(stack[k].file.dir, program[stack[k].file][stack[k].next])
             = stack[k + 1].file
  BY DEF LoadInv, StackFollowsImports, n, m
<1>6. \A k \in 1..m : k \in 1..n /\ FileLength(stack[k].file) \in Nat /\ stack[k].next \in Nat
  <2> TAKE k \in 1..m
  <2>1. k \in 1..n
    BY <1>1
  <2>2. stack[k] \in Frames
    BY <2>1, ElementOfSeq DEF LoadInv, LoadTypeOK, n
  <2>3. QED
    BY <2>1, <2>2, FileLengths DEF LoadInv, LoadTypeOK, Frames
<1>7. LoadTypeOK'
  <2>1. \A k \in 1..m : stack'[k].next \in 1..FileLength(stack'[k].file) + 1
    <3> TAKE k \in 1..m
    <3>1. stack[k].next \in 1..FileLength(stack[k].file) /\ FileLength(stack[k].file) \in Nat
      BY <1>5, <1>6
    <3>2. stack'[k].file = stack[k].file
      BY <1>2
    <3>3. stack'[k].next = stack[k].next \/ stack'[k].next = stack[k].next + 1
      BY <1>1, <1>2
    <3>4. QED
      BY <3>1, <3>2, <3>3
  <2>2. stack'[1].file = Root
    BY <1>1, <1>2 DEF LoadInv, LoadTypeOK
  <2>3. QED
    BY <1>1, <1>2, <1>4, <2>1, <2>2 DEF LoadInv, LoadTypeOK, Frames, FileLength
<1>8. StackFollowsImports'
  <2>1. \A k \in 1..m - 1 : /\ k \in 1..m
                            /\ stack'[k].file = stack[k].file /\ stack'[k].next = stack[k].next
                            /\ stack'[k + 1].file = stack[k + 1].file
    BY <1>1, <1>2
  <2>2. QED
    BY <1>2, <1>5, <2>1 DEF StackFollowsImports, FileLength
<1>9. EndsAtTheRoot' /\ RootIsNeverLoaded'
  BY <1>4 DEF LoadInv, EndsAtTheRoot, RootIsNeverLoaded
<1>10. MarksMatchTheStack'
  <2>1. /\ loading = {stack[k].file : k \in 2..n}
        /\ \A j, k \in 2..n : stack[j].file = stack[k].file => j = k
        /\ loaded \cap loading = {}
    BY DEF LoadInv, MarksMatchTheStack, n
  <2>2. n \in 2..n /\ \A k \in 2..n : k \in 2..m \/ k = n
    BY <1>1 DEF n
  <2>3. \A k \in 2..m : k \in 2..n /\ k # n /\ stack'[k].file = stack[k].file
    BY <1>1, <1>2
  <2>4. \A k \in 2..m : stack[k].file # Top.file
    BY <1>3, <2>1, <2>2, <2>3
  <2>5. loading' = {stack'[k].file : k \in 2..m}
    BY <1>3, <2>1, <2>2, <2>3, <2>4
  <2>6. \A j, k \in 2..m : stack'[j].file = stack'[k].file => j = k
    BY <2>1, <2>3
  <2>7. loaded' \cap loading' = {}
    BY <2>1
  <2>8. QED
    BY <1>2, <2>5, <2>6, <2>7 DEF MarksMatchTheStack
<1>11. ImportsComeFirst'
  <2> DEFINE Loaded(f, j) ==
        program[f][j].kind = "import" => resolve_import_path(f.dir, program[f][j]) \in loaded'
  <2>1. \A k \in 1..m : \A j \in 1..stack[k].next - 1 : Loaded(stack[k].file, j)
    BY <1>6 DEF LoadInv, ImportsComeFirst, n
  <2>2. Loaded(stack[m].file, stack[m].next)
    <3>1. stack[m + 1] = Top
      BY <1>1, <1>3
    <3>2. QED
      BY <1>1, <1>5, <3>1
  <2>3. \A k \in 1..m : \A j \in 1..stack'[k].next - 1 : Loaded(stack'[k].file, j)
    <3> TAKE k \in 1..m
    <3> TAKE j \in 1..stack'[k].next - 1
    <3>1. stack'[k].file = stack[k].file /\ stack[k].next \in Nat
      BY <1>2, <1>6
    <3>2. CASE j \in 1..stack[k].next - 1
      BY <2>1, <3>1, <3>2
    <3>3. CASE j \notin 1..stack[k].next - 1
      <4>1. k = m /\ stack'[k].next = stack[k].next + 1
        <5>1. k # m => stack'[k].next = stack[k].next
          BY <1>1, <1>2
        <5>2. k = m
          BY <3>3, <5>1
        <5>3. QED
          BY <1>2, <5>2
      <4>2. j = stack[m].next
        BY <3>1, <3>3, <4>1
      <4>3. QED
        BY <2>2, <3>1, <4>1, <4>2
    <3>4. QED
      BY <3>2, <3>3
  <2>4. \A f \in loaded' : f \in DOMAIN program /\ ImportsOf(f) \subseteq loaded'
    BY <1>4 DEF LoadInv, ImportsComeFirst
  <2>5. QED
    BY <1>2, <2>3, <2>4 DEF ImportsComeFirst, ImportsOf
<1>12. QED
  BY <1>7, <1>8, <1>9, <1>10, <1>11 DEF LoadInv

(* Steps that end the run leave the files as they are.                     *)
LEMMA StopInv ==
  ASSUME LoadInv, UNCHANGED <<program, stack, loaded>>, phase' # "running",
         phase' = "done" => Len(stack) = 1 /\ AtEnd
  PROVE  LoadInv'
<1>1. LoadTypeOK' /\ StackFollowsImports'
  BY DEF LoadInv, LoadTypeOK, StackFollowsImports, Frames, FileLength
<1>2. EndsAtTheRoot' /\ MarksMatchTheStack' /\ RootIsNeverLoaded'
  BY DEF LoadInv, EndsAtTheRoot, MarksMatchTheStack, RootIsNeverLoaded, AtEnd, Top
<1>3. ImportsComeFirst'
  BY DEF LoadInv, ImportsComeFirst, ImportsOf
<1>4. QED
  BY <1>1, <1>2, <1>3 DEF LoadInv

LEMMA LoadNextInv == LoadInv /\ [LoadNext]_loadVars => LoadInv'
<1> SUFFICES ASSUME LoadInv, [LoadNext]_loadVars PROVE LoadInv'
  OBVIOUS
<1>1. CASE SkipLoaded
  BY <1>1, AdvanceInv DEF SkipLoaded, AtImport
<1>2. CASE RefuseCycle
  BY <1>2, StopInv DEF RefuseCycle
<1>3. CASE RefuseUnreadable
  BY <1>3, StopInv DEF RefuseUnreadable
<1>4. CASE EnterImport
  BY <1>4, EnterInv
<1>5. CASE LeaveImport
  BY <1>5, LeaveInv
<1>6. CASE FinishRoot
  BY <1>6, StopInv DEF FinishRoot
<1>7. CASE Declare
  BY <1>7, AdvanceInv DEF Declare, AtDeclaration
<1>8. ASSUME NEW error \in {"Parse", "Type"}, Reject(error) PROVE LoadInv'
  BY <1>8, StopInv DEF Reject
<1>9. CASE UNCHANGED loadVars
  <2>1. UNCHANGED <<program, stack, loaded, loading, phase>>
    BY <1>9 DEF loadVars
  <2>2. LoadTypeOK' /\ StackFollowsImports'
    BY <2>1 DEF LoadInv, LoadTypeOK, StackFollowsImports, Frames, FileLength
  <2>3. EndsAtTheRoot' /\ MarksMatchTheStack' /\ RootIsNeverLoaded'
    BY <2>1 DEF LoadInv, EndsAtTheRoot, MarksMatchTheStack, RootIsNeverLoaded, AtEnd, Top
  <2>4. ImportsComeFirst'
    BY <2>1 DEF LoadInv, ImportsComeFirst, ImportsOf
  <2>5. QED
    BY <2>2, <2>3, <2>4 DEF LoadInv
<1>10. QED
  BY <1>1, <1>2, <1>3, <1>4, <1>5, <1>6, <1>7, <1>8, <1>9 DEF LoadNext

LEMMA LoadCorrect == LoadSpec => []LoadInv
BY LoadInitInv, LoadNextInv, PTL DEF LoadSpec

-----------------------------------------------------------------------------
(* load_import decides by the marks alone whether to load, skip or refuse  *)
(* a file; they always tell the files under way from the ones done.        *)
THEOREM MarksAreRight == LoadSpec => []MarksMatchTheStack
BY LoadCorrect, PTL DEF LoadInv

(* A declaration is processed when everything its file imports above it    *)
(* has been, however the files import one another.                         *)
THEOREM ImportsAreFirst == LoadSpec => []ImportsComeFirst
BY LoadCorrect, PTL DEF LoadInv

(* A run that ends without an error has loaded all that the root imports.  *)
THEOREM DoneIsComplete == LoadSpec => []DoneMeansAllLoaded
<1>1. LoadInv => DoneMeansAllLoaded
  <2> SUFFICES ASSUME LoadInv, phase = "done" PROVE ImportsOf(Root) \subseteq loaded /\ Root \notin loaded
    BY DEF DoneMeansAllLoaded
  <2>1. Len(stack) = 1 /\ AtEnd /\ Top.file = Root
    BY DEF LoadInv, EndsAtTheRoot, LoadTypeOK, Top
  <2>2. FileLength(Root) \in Nat /\ Top.next = FileLength(Root) + 1
    BY <2>1, TopFacts
  <2>3. \A j \in 1..FileLength(Root) :
          program[Root][j].kind = "import"
            => resolve_import_path(Root.dir, program[Root][j]) \in loaded
    BY <2>1, <2>2 DEF LoadInv, ImportsComeFirst, Top
  <2>4. QED
    BY <2>3 DEF LoadInv, RootIsNeverLoaded, ImportsOf, FileLength
<1>2. QED
  BY <1>1, LoadCorrect, PTL

(* A file is marked as loaded after all its imports, and stays so.         *)
THEOREM LoadedInOrder == LoadSpec => LoadsInOrder
<1>1. LoadInv /\ [LoadNext]_loadVars =>
        \/ loaded' = loaded
        \/ \E f \in DOMAIN program \ loaded :
             ImportsOf(f) \subseteq loaded /\ loaded' = loaded \cup {f}
  <2> SUFFICES ASSUME LoadInv, [LoadNext]_loadVars, loaded' # loaded
               PROVE  \E f \in DOMAIN program \ loaded :
                        ImportsOf(f) \subseteq loaded /\ loaded' = loaded \cup {f}
    OBVIOUS
  <2>1. LeaveImport
    BY DEF LoadNext, SkipLoaded, RefuseCycle, RefuseUnreadable, EnterImport, FinishRoot,
           Declare, Reject, loadVars
  <2>2. loaded' = loaded \cup {Top.file}
    BY <2>1 DEF LeaveImport
  <2>3. QED
    BY <2>1, <2>2, LeaveFacts
<1>2. QED
  BY <1>1, LoadCorrect, PTL DEF LoadSpec, LoadsInOrder

(* The files that have been loaded never import one another in a circle,   *)
(* because each was new when its imports had been loaded.                  *)
THEOREM NoCycleIsLoaded == LoadSpec => []LoadedFilesHaveNoCycle
<1>1. LoadInit => LoadedFilesHaveNoCycle
  BY DEF LoadInit, LoadedFilesHaveNoCycle
<1>2. LoadInv /\ LoadedFilesHaveNoCycle /\ [LoadNext]_loadVars => LoadedFilesHaveNoCycle'
  <2> SUFFICES ASSUME LoadInv, LoadedFilesHaveNoCycle, [LoadNext]_loadVars,
                      NEW S \in SUBSET loaded', S # {}
               PROVE  \E f \in S : ImportsOf(f)' \cap S = {}
    BY DEF LoadedFilesHaveNoCycle
  <2>1. program' = program
    BY DEF LoadNext, SkipLoaded, RefuseCycle, RefuseUnreadable, EnterImport, LeaveImport,
           FinishRoot, Declare, Reject, loadVars
  <2>2. \A f : ImportsOf(f)' = ImportsOf(f)
    BY <2>1 DEF ImportsOf
  <2>3. CASE LeaveImport
    <3> DEFINE new == Top.file
               old == S \ {new}
    <3>1. ImportsOf(new) \subseteq loaded /\ new \notin loaded /\ S \subseteq loaded \cup {new}
      BY <2>3, LeaveFacts DEF LeaveImport
    <3>2. CASE old = {}
      BY <2>2, <3>1, <3>2
    <3>3. CASE old # {}
      <4>1. PICK f \in old : ImportsOf(f) \cap old = {}
        BY <3>1, <3>3 DEF LoadedFilesHaveNoCycle
      <4>2. ImportsOf(f) \subseteq loaded
        BY <3>1 DEF LoadInv, ImportsComeFirst
      <4>3. QED
        BY <2>2, <3>1, <4>1, <4>2
    <3>4. QED
      BY <3>2, <3>3
  <2>4. CASE ~ LeaveImport
    <3>1. loaded' = loaded
      BY <2>4 DEF LoadNext, SkipLoaded, RefuseCycle, RefuseUnreadable, EnterImport, FinishRoot,
                  Declare, Reject, loadVars
    <3>2. QED
      BY <2>2, <3>1 DEF LoadedFilesHaveNoCycle
  <2>5. QED
    BY <2>3, <2>4
<1>3. QED
  BY <1>1, <1>2, LoadCorrect, PTL DEF LoadSpec
=============================================================================
