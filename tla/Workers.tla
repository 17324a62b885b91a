------------------------------- MODULE Workers ------------------------------
(***************************************************************************)
(* The threads of the program: load-asm-parallel                           *)
(* (src/src/builtins/asm.rs), whose workers assemble a file into a region  *)
(* of memory (JitMemory, src/src/tinyasm/jit.rs) and run it there, and     *)
(* parallel-eval (src/src/builtins/utils.rs), whose workers evaluate a     *)
(* source in an interpreter of their own.  The caller spawns all of them   *)
(* and joins them in order; at the first error it returns, and the workers *)
(* not yet joined run on.                                                  *)
(*                                                                         *)
(* A source is [kind |-> "lisp", outcome] or, for a file,                  *)
(* [kind |-> "asm", readable, lines]; a line that is no instruction is     *)
(* [op |-> "blank"] or [op |-> "bad"].                                     *)
(***************************************************************************)
EXTENDS Assembler

CONSTANTS Inputs,       \* the lists of sources the caller may be given
          MaxThreads,
          PageSize

(* What a source gives is an answer.                                       *)
Ok(v) == [kind |-> "ok", value |-> v]
Err(e) == [kind |-> "error", value |-> e]
Panicked == [kind |-> "panic"]
IsAnswer(r) == r = Panicked \/ r = Ok(r.value) \/ r = Err(r.value)

IsText(lines) ==
  /\ lines \in Seq({lines[l] : l \in DOMAIN lines})
  /\ \A l \in DOMAIN lines : lines[l].op \in {"blank", "bad"} \/ IsInstruction(lines[l])

ASSUME InputsAssumption ==
  \A s \in Inputs :
    /\ s \in Seq({s[k] : k \in DOMAIN s}) /\ Len(s) <= MaxThreads
    /\ \A k \in DOMAIN s :
         /\ s[k].kind = "lisp" => IsAnswer(s[k].outcome)
         /\ s[k].kind = "asm" => IsText(s[k].lines)
ASSUME PageSizeAssumption == PageSize \in Nat \ {0}

VARIABLES sources,      \* the list given
          worker,       \* the threads, one for each source
          caller        \* the call of the builtin
vars == <<sources, worker, caller>>

Threads == DOMAIN sources
NoRegion == [prot |-> "unmapped", state |-> "none", size |-> 0, bytes |-> << >>]
Idle == [at |-> "unborn", prog |-> << >>, code |-> << >>, region |-> NoRegion,
         cpu |-> Ready, result |-> [kind |-> "none"]]
Init ==
  /\ sources \in Inputs
  /\ worker = [k \in DOMAIN sources |-> Idle]
  /\ caller = [at |-> "spawning", next |-> 1, results |-> << >>, outcome |-> [kind |-> "none"]]

-----------------------------------------------------------------------------
(* A worker of load-asm-parallel, from its file to its result.  Every      *)
(* early return drops the region if there is one.                          *)
At(k, place) == worker[k].at = place
Become(k, w) == worker' = [worker EXCEPT ![k] = w] /\ UNCHANGED <<sources, caller>>
Unmap(region) == IF region.prot = "unmapped" THEN region ELSE [region EXCEPT !.prot = "unmapped"]
Failed(w, e) == [w EXCEPT !.at = "ended", !.region = Unmap(@), !.result = Err(e)]

AddLine(prog, line) == IF line.op = "blank" THEN prog ELSE Append(prog, line)
Parses(lines) == \A l \in 1..Len(lines) : lines[l].op # "bad"
Parsed(lines) == FoldLeft(AddLine, << >>, lines)
ParsedPrograms ==
  {Parsed(s.lines) : s \in {t \in UNION {ToSet(i) : i \in Inputs} : t.kind = "asm" /\ Parses(t.lines)}}
Assembly == [prog \in ParsedPrograms |-> assemble(prog)]
ProgramsEnd ==
  \A prog \in ParsedPrograms :
    Assembly[prog].error = "none" /\ Assembly[prog].code # << >> => Ends(prog)
ReadAndParse(k) ==
  /\ At(k, "born") /\ sources[k].kind = "asm"
  /\ LET w == worker[k]
         lines == sources[k].lines
     IN  Become(k, IF ~ sources[k].readable THEN Failed(w, "cannot read")
                   ELSE IF ~ Parses(lines) THEN Failed(w, "parse error")
                   ELSE [w EXCEPT !.at = "parsed", !.prog = Parsed(lines)])
Assemble(k) ==
  /\ At(k, "parsed")
  /\ LET w == worker[k]
         out == Assembly[w.prog]
     IN  Become(k, IF out.error # "none" THEN Failed(w, out.error)
                   ELSE [w EXCEPT !.at = "assembled", !.code = out.code])

RoundUp(n) == ((n + PageSize - 1) \div PageSize) * PageSize
New(k) ==                                   \* mmap may fail
  /\ At(k, "assembled")
  /\ LET w == worker[k]
     IN  \/ Become(k, Failed(w, "no region"))
         \/ /\ w.code # << >>
            /\ Become(k, [w EXCEPT !.at = "mapped",
                                   !.region = [prot |-> "rw", state |-> "ReadWrite",
                                               size |-> RoundUp(Len(w.code)), bytes |-> << >>]])
Write(k) ==
  /\ At(k, "mapped")
  /\ LET w == worker[k]
         r == w.region
     IN  Become(k, IF r.state # "ReadWrite" THEN Failed(w, "cannot write")
                   ELSE IF Len(r.bytes) + Len(w.code) > r.size THEN Failed(w, "exceeds region")
                   ELSE [w EXCEPT !.at = "written", !.region.bytes = @ \o w.code])
MakeExecutableByName(k) ==                  \* mutant: the state changes, the pages do not
  /\ At(k, "written")
  /\ LET w == worker[k]
     IN  Become(k, [w EXCEPT !.at = "sealed", !.region.state = "ReadExec"])
MakeExecutable(k) ==                        \* mprotect may fail
  /\ At(k, "written")
  /\ LET w == worker[k]
     IN  \/ Become(k, Failed(w, "mprotect failed"))
         \/ Become(k, [w EXCEPT !.at = "sealed", !.region.state = "ReadExec", !.region.prot = "rx"])
AsFn(k) ==
  /\ At(k, "sealed")
  /\ LET w == worker[k]
     IN  Become(k, IF w.region.state # "ReadExec" THEN Failed(w, "not executable")
                   ELSE IF w.region.bytes = << >> THEN Failed(w, "region is empty")
                   ELSE [w EXCEPT !.at = "running"])

(* Native code: an instruction, the last one, or a fault, which would take *)
(* the process with it.                                                    *)
Here(k) == Fetched(worker[k].region.bytes, worker[k].cpu)
CanRun(k) == At(k, "running") /\ ~ Fault(worker[k].region.bytes, worker[k].cpu)
Run(k) ==
  /\ CanRun(k) /\ Here(k).op # "ret"
  /\ Become(k, [worker[k] EXCEPT !.cpu = NativeStep(worker[k].region.bytes, @)])
ReturnRax(k) ==
  /\ CanRun(k) /\ Here(k).op = "ret"
  /\ Become(k, [worker[k] EXCEPT !.at = "ended", !.region = Unmap(@),
                                 !.result = Ok(worker[k].cpu.rax)])

(* A worker of parallel-eval: its own heap, its own bindings.              *)
EvalWorkerSource(k) ==
  /\ At(k, "born") /\ sources[k].kind = "lisp"
  /\ Become(k, [worker[k] EXCEPT !.at = "ended", !.result = sources[k].outcome])

AsmSteps(k) == \/ ReadAndParse(k) \/ Assemble(k) \/ New(k) \/ Write(k) \/ MakeExecutable(k)
               \/ AsFn(k) \/ Run(k) \/ ReturnRax(k)
WorkerStep(k) == AsmSteps(k) \/ EvalWorkerSource(k)

-----------------------------------------------------------------------------
(* The caller.                                                             *)
Spawn ==
  /\ caller.at = "spawning" /\ caller.next <= Len(sources)
  /\ worker' = [worker EXCEPT ![caller.next].at = "born"]
  /\ caller' = [caller EXCEPT !.next = @ + 1]
  /\ UNCHANGED sources
AllSpawned ==
  /\ caller.at = "spawning" /\ caller.next > Len(sources)
  /\ caller' = [caller EXCEPT !.at = "joining", !.next = 1]
  /\ UNCHANGED <<sources, worker>>

Joined(result, call) ==
  IF result.kind = "ok" THEN [call EXCEPT !.next = @ + 1, !.results = Append(@, result.value)]
  ELSE [call EXCEPT !.at = "returned",
                    !.outcome = IF result.kind = "panic" THEN Err("worker thread panicked") ELSE result]
JoinAnyFirst ==                             \* mutant: whichever worker has ended
  /\ caller.at = "joining" /\ caller.next <= Len(sources)
  /\ \E k \in Threads : At(k, "ended") /\ caller' = Joined(worker[k].result, caller)
  /\ UNCHANGED <<sources, worker>>
JoinAll ==                                  \* mutant: an error waits for all the workers
  /\ caller.at = "joining" /\ caller.next <= Len(sources)
  /\ \A k \in Threads : At(k, "ended")
  /\ caller' = Joined(worker[caller.next].result, caller)
  /\ UNCHANGED <<sources, worker>>
Join ==
  /\ caller.at = "joining" /\ caller.next <= Len(sources)
  /\ At(caller.next, "ended")
  /\ caller' = Joined(worker[caller.next].result, caller)
  /\ UNCHANGED <<sources, worker>>
AllJoined ==
  /\ caller.at = "joining" /\ caller.next > Len(sources)
  /\ caller' = [caller EXCEPT !.at = "returned", !.outcome = Ok(caller.results)]
  /\ UNCHANGED <<sources, worker>>

CallerStep == Spawn \/ AllSpawned \/ Join \/ AllJoined
Next == CallerStep \/ \E k \in Threads : WorkerStep(k)
Spec == Init /\ [][Next]_vars

(* Each thread is scheduled again and again.                               *)
Fairness == WF_vars(CallerStep) /\ \A k \in 1..MaxThreads :
              WF_vars(k \in Threads /\ WorkerStep(k))
LiveSpec == Spec /\ Fairness

-----------------------------------------------------------------------------
(* What runs is the whole program and nothing else, in pages that can no   *)
(* longer be written, at the first byte of an instruction.                 *)
RunsSealedCode ==
  \A k \in Threads : At(k, "running") =>
    worker[k].region.prot = "rx" /\ worker[k].region.bytes = worker[k].code
RunsFinishedCode ==
  /\ RunsSealedCode
  /\ \A k \in Threads : At(k, "running") => ~ Fault(worker[k].code, worker[k].cpu)

(* Where a worker is, in its program.                                      *)
AtSource(w) == [w.cpu EXCEPT !.at = SourceOf(w.prog, w.code, @)]

(* Native code takes the steps its program takes: after each, it stands at *)
(* the instruction where the program stands, with the same register and    *)
(* flag.  Offsets of the first pass that are not those of the second would *)
(* send a jump elsewhere.                                                  *)
NativeFollowsTheSource ==
  [][\A k \in Threads : LET w == worker[k] IN
       w.at = "running" /\ worker'[k].at = "running" /\ w.cpu # worker'[k].cpu
         => AtSource(worker'[k]) = PastLabels(w.prog, SourceStep(w.prog, AtSource(w)))]_vars

(* What the call returns does not depend on which worker is faster: the    *)
(* values in the order of the sources, or the error of the first source    *)
(* that has one.                                                           *)
OutcomeIsInOrder ==
  caller.at = "returned" =>
    LET outcome == caller.outcome
    IN  IF outcome.kind = "ok"
        THEN /\ Len(outcome.value) = Len(sources)
             /\ \A k \in Threads : worker[k].result = Ok(outcome.value[k])
        ELSE \E k \in Threads :
               /\ worker[k].result.kind \in {"error", "panic"}
               /\ worker[k].result.kind = "error" => outcome = worker[k].result
               /\ \A j \in 1..k - 1 : worker[j].result.kind = "ok"

(* The call returns once the workers up to the first that fails have ended,*)
(* whatever the others do: a later one may run for ever.                   *)
Decided(k) ==
  /\ k \in Threads /\ \A j \in 1..k : At(j, "ended")
  /\ worker[k].result.kind # "ok" \/ k = Len(sources)
ReturnsWhenDecided == \A k \in 1..MaxThreads : Decided(k) ~> caller.at = "returned"
=============================================================================
