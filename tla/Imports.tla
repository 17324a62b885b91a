------------------------------- MODULE Imports ------------------------------
(***************************************************************************)
(* How the files of a cubical program are loaded                           *)
(* (src/src/cubical/mod.rs): process_file_source, which walks the          *)
(* declarations of a file, and load_import, which calls it again for an    *)
(* imported file.  The calls under way are the stack of files; what a      *)
(* declaration other than an import does is left to the module Cubical.    *)
(*                                                                         *)
(* A file is [dir, name], an import [kind, dir, name]: the directory "."   *)
(* is that of the importing file.                                          *)
(***************************************************************************)
EXTENDS Integers, Sequences

CONSTANTS Programs,     \* the programs run: functions from files to declarations
          Root          \* the file the run begins with

ASSUME ProgramsAssumption ==
  \A p \in Programs :
    Root \in DOMAIN p /\ \A f \in DOMAIN p : p[f] \in Seq({p[f][i] : i \in DOMAIN p[f]})

VARIABLES program, stack, loaded, loading, phase
loadVars == <<program, stack, loaded, loading, phase>>

Frame(f) == [file |-> f, next |-> 1]
resolve_import_path(base, decl) ==
  [dir |-> IF decl.dir = "." THEN base ELSE decl.dir, name |-> decl.name]

Top == stack[Len(stack)]
AtEnd == Top.next > Len(program[Top.file])
Decl == program[Top.file][Top.next]
Target == resolve_import_path(Top.file.dir, Decl)
(* The files a declaration list imports, seen from directory base.         *)
ImportsOf(f) ==
  {resolve_import_path(f.dir, program[f][i]) :
     i \in {j \in 1..Len(program[f]) : program[f][j].kind = "import"}}
Advanced(frames) == [frames EXCEPT ![Len(frames)].next = @ + 1]

LoadInit ==
  /\ program \in Programs
  /\ stack = <<Frame(Root)>>
  /\ loaded = {}
  /\ loading = {}
  /\ phase = "running"

AtImport == phase = "running" /\ ~ AtEnd /\ Decl.kind = "import"
AtDeclaration == phase = "running" /\ ~ AtEnd /\ Decl.kind # "import"

SkipHere ==                                          \* mutant: the import is met again
  /\ AtImport /\ Target \in loaded
  /\ UNCHANGED loadVars
SkipMarked ==                                        \* mutant: so is a file under way
  /\ AtImport /\ Target \in loaded \cup loading
  /\ stack' = Advanced(stack)
  /\ UNCHANGED <<program, loaded, loading, phase>>
SkipLoaded ==
  /\ AtImport /\ Target \in loaded
  /\ stack' = Advanced(stack)
  /\ UNCHANGED <<program, loaded, loading, phase>>
RefuseCycle ==
  /\ AtImport /\ Target \notin loaded /\ Target \in loading
  /\ phase' = "Import"
  /\ UNCHANGED <<program, stack, loaded, loading>>
RefuseUnreadable ==
  /\ AtImport /\ Target \notin loaded \cup loading /\ Target \notin DOMAIN program
  /\ loading' = loading \cup {Target}
  /\ phase' = "Import"
  /\ UNCHANGED <<program, stack, loaded>>
EnterMarked ==                                       \* mutant: marked as loaded at once
  /\ AtImport /\ Target \notin loaded \cup loading /\ Target \in DOMAIN program
  /\ loaded' = loaded \cup {Target}
  /\ stack' = Append(stack, Frame(Target))
  /\ UNCHANGED <<program, loading, phase>>
EnterImport ==
  /\ AtImport /\ Target \notin loaded \cup loading /\ Target \in DOMAIN program
  /\ loading' = loading \cup {Target}
  /\ stack' = Append(stack, Frame(Target))
  /\ UNCHANGED <<program, loaded, phase>>
LeaveMarked ==                                       \* mutant: still marked as being loaded
  /\ phase = "running" /\ AtEnd /\ Len(stack) > 1
  /\ loaded' = loaded \cup {Top.file}
  /\ stack' = Advanced(SubSeq(stack, 1, Len(stack) - 1))
  /\ UNCHANGED <<program, loading, phase>>
LeaveImport ==
  /\ phase = "running" /\ AtEnd /\ Len(stack) > 1
  /\ loading' = loading \ {Top.file}
  /\ loaded' = loaded \cup {Top.file}
  /\ stack' = Advanced(SubSeq(stack, 1, Len(stack) - 1))
  /\ UNCHANGED <<program, phase>>
FinishRoot ==
  /\ phase = "running" /\ AtEnd /\ Len(stack) = 1
  /\ phase' = "done"
  /\ UNCHANGED <<program, stack, loaded, loading>>
Declare ==
  /\ AtDeclaration
  /\ stack' = Advanced(stack)
  /\ UNCHANGED <<program, loaded, loading, phase>>
Reject(error) ==
  /\ AtDeclaration
  /\ phase' = error
  /\ UNCHANGED <<program, stack, loaded, loading>>

LoadNext ==
  \/ SkipLoaded \/ RefuseCycle \/ RefuseUnreadable \/ EnterImport \/ LeaveImport \/ FinishRoot
  \/ Declare \/ \E error \in {"Parse", "Type"} : Reject(error)
LoadSpec == LoadInit /\ [][LoadNext]_loadVars

-----------------------------------------------------------------------------
(* The files under way are the ones marked as being loaded, each of them   *)
(* once, and none of them is also marked as loaded: what a second import   *)
(* of a file meets is decided by these marks alone.                        *)
MarksMatchTheStack ==
  phase = "running" =>
    /\ loading = {stack[i].file : i \in 2..Len(stack)}
    /\ \A i, j \in 2..Len(stack) : stack[i].file = stack[j].file => i = j
    /\ loaded \cap loading = {}

(* A loaded file's own imports have been loaded, and so have those a file  *)
(* under way has gone past.                                                *)
ImportsComeFirst ==
  /\ \A f \in loaded : f \in DOMAIN program /\ ImportsOf(f) \subseteq loaded
  /\ \A i \in 1..Len(stack) : \A j \in 1..(stack[i].next - 1) :
       LET f == stack[i].file
       IN program[f][j].kind = "import" => resolve_import_path(f.dir, program[f][j]) \in loaded

(* No loaded files import one another in a circle: among any of them one   *)
(* imports none of the others, nor itself.                                 *)
LoadedFilesHaveNoCycle ==
  \A S \in SUBSET loaded : S # {} => \E f \in S : ImportsOf(f) \cap S = {}

(* A run that ends well has loaded everything the root imports, directly   *)
(* or not, and the root is not among it.                                   *)
DoneMeansAllLoaded ==
  phase = "done" => ImportsOf(Root) \subseteq loaded /\ Root \notin loaded

(* A file is marked as loaded after all its imports were, once and for all.*)
LoadsInOrder ==
  [][\/ loaded' = loaded
     \/ \E f \in DOMAIN program \ loaded :
          ImportsOf(f) \subseteq loaded /\ loaded' = loaded \cup {f}]_loadVars
=============================================================================
