--------------------------- MODULE PersistenceFault ---------------------------
(***************************************************************************)
(* apply_persistence_fault: the benchmark injects a real fault into the     *)
(* process and files a subject staged.  The staged process goes on running: *)
(* it may exit, its PID may be given to a stranger, and it may rewrite its  *)
(* target file between any two steps of the benchmark.                      *)
(*                                                                         *)
(* Faults of one kind differ in the role of their file only, so one of each *)
(* kind is kept.  A file's content is who wrote it and what a fault did to  *)
(* it.                                                                      *)
(***************************************************************************)
EXTENDS Integers, FiniteSets

VARIABLES
    fault,       \* the fault of the case
    stage,       \* how the subject staged it
    fpc,         \* where apply_persistence_fault is
    proc,        \* the staged PID: running, gone, recycled (a stranger has it)
    hit,         \* whom SIGTERM reached
    target,      \* content of the fault target
    wrote,       \* has the process written the target since it was checked?
    bytes,       \* the content read for a byte flip
    reader,      \* the concurrent reader: off, idle, stuck, done
    reads,       \* read_hashes
    evidence     \* what is returned

fvars == <<fault, stage, fpc, proc, hit, target, wrote, bytes, reader, reads, evidence>>

ProcessFaults == {"restart"}
ReplacementFaults == {"revision_mismatch", "concurrent_reader_writer"}
MutationFaults == {"corruption", "audit_tail_gap", "duplicate_operation"}
Faults == {"none"} \cup ProcessFaults \cup ReplacementFaults \cup MutationFaults

\* A stage is honest, or wrong in one way.
Stages == {"honest", "unlisted_binary", "changed_binary", "other_process", "wrong_file",
           "missing_file", "extra_file", "same_replacement", "empty_file"}

MaxIdentities == 8     \* MAX_CONCURRENT_PUBLICATION_IDENTITIES

Content(writer, op) == [writer |-> writer, op |-> op]
Staged == Content("stage", "whole")

NoEvidence == [action |-> "none", terminated |-> FALSE, before |-> Staged, after |-> Staged,
               reads |-> {}]

FaultIdle ==
    /\ fault = "none" /\ stage = "honest" /\ fpc = "idle" /\ proc = "running" /\ hit = "none"
    /\ target = Staged /\ wrote = FALSE /\ bytes = Staged /\ reader = "off" /\ reads = {}
    /\ evidence = NoEvidence

\* The answer to stage-runtime-root: a process and files of a new case.
StageRuntime(f, s) ==
    /\ fault' = f /\ stage' = s /\ fpc' = "process" /\ proc' \in {"running", "gone"}
    /\ hit' = "none" /\ target' = Staged /\ wrote' = FALSE /\ bytes' = Staged
    /\ reader' = "off" /\ reads' = {} /\ evidence' = NoEvidence

Goto(label) == fpc' = label
Raise == Goto("raised")

NextPc ==
    CASE fault = "none" -> "returned"
      [] fault \in ProcessFaults -> "recheck"
      [] fault = "concurrent_reader_writer" -> "reader"
      [] fault = "revision_mismatch" -> "replace"
      [] fault = "corruption" -> "read"
      [] OTHER -> "mutate"

\* The staged PID is alive and executes the declared, unchanged binary.
CheckProcess ==
    /\ fpc = "process"
    /\ \/ /\ proc # "running" \/ stage \in {"unlisted_binary", "changed_binary", "other_process"}
          /\ Raise
       \/ /\ proc = "running" /\ stage \notin {"unlisted_binary", "changed_binary", "other_process"}
          /\ Goto("files")
    /\ UNCHANGED <<fault, stage, proc, hit, target, wrote, bytes, reader, reads, evidence>>

\* The files the fault needs are staged, no others, with the declared bytes.
FilesRefused ==
    \/ fault = "none" /\ stage \in {"extra_file"}
    \/ fault # "none" /\ stage \in {"wrong_file", "missing_file", "extra_file"}
    \/ fault \notin ProcessFaults \cup {"none"} /\ target # Staged
    \/ fault \in ReplacementFaults /\ stage = "same_replacement"
    \/ fault \in MutationFaults /\ stage = "empty_file"

CheckFiles ==
    /\ fpc = "files"
    /\ \/ FilesRefused /\ Raise
       \/ ~FilesRefused /\ Goto(NextPc)
    /\ wrote' = FALSE
    /\ UNCHANGED <<fault, stage, proc, hit, target, bytes, reader, reads, evidence>>

-----------------------------------------------------------------------------
(* Termination of the staged process *)

RecheckProcess ==
    /\ fpc = "recheck"
    /\ \/ proc # "running" /\ Raise
       \/ proc = "running" /\ Goto("kill")
    /\ UNCHANGED <<fault, stage, proc, hit, target, wrote, bytes, reader, reads, evidence>>

\* os.kill(SIGTERM): whoever has the PID now gets it.
Terminate ==
    /\ fpc = "kill"
    /\ \/ proc = "gone" /\ Raise /\ UNCHANGED hit
       \/ proc # "gone" /\ Goto("await")
          /\ hit' = IF proc = "running" THEN "staged" ELSE "stranger"
    /\ UNCHANGED <<fault, stage, proc, target, wrote, bytes, reader, reads, evidence>>

\* Mutation: a signalled process counts as stopped.
AwaitStopped_Signalled ==
    /\ fpc = "await" /\ Goto("returned")
    /\ evidence' = [evidence EXCEPT !.action = "sigterm", !.terminated = TRUE]
    /\ UNCHANGED <<fault, stage, proc, hit, target, wrote, bytes, reader, reads>>

\* The PID is polled until it is gone or the deadline has passed.
AwaitStopped ==
    /\ fpc = "await"
    /\ \/ /\ proc = "gone" /\ Goto("returned")
          /\ evidence' = [evidence EXCEPT !.action = "sigterm", !.terminated = TRUE]
       \/ proc # "gone" /\ Raise /\ UNCHANGED evidence
    /\ UNCHANGED <<fault, stage, proc, hit, target, wrote, bytes, reader, reads>>

-----------------------------------------------------------------------------
(* Replacement, with or without a concurrent reader *)

StartReader ==
    /\ fpc = "reader" /\ Goto("first") /\ reader' = "idle"
    /\ UNCHANGED <<fault, stage, proc, hit, target, wrote, bytes, reads, evidence>>

\* Up to a second for the reader's first identity, then the replacement.
FirstRead ==
    /\ fpc = "first" /\ Goto("replace")
    /\ UNCHANGED <<fault, stage, proc, hit, target, wrote, bytes, reader, reads, evidence>>

Replace ==
    /\ fpc = "replace" /\ target' = Content("replacement", "whole")
    /\ Goto(IF reader = "off" THEN "after" ELSE "join")
    /\ evidence' = [evidence EXCEPT !.action = "atomic-replace"]
    /\ UNCHANGED <<fault, stage, proc, hit, wrote, bytes, reader, reads>>

\* os.replace raises, or the fsync after it: the finally clause stops the reader.
ReplaceFails ==
    /\ fpc = "replace" /\ Raise
    /\ reader' = IF reader = "idle" THEN "done" ELSE reader
    /\ target' \in {target, Content("replacement", "whole")}
    /\ UNCHANGED <<fault, stage, proc, hit, wrote, bytes, reads, evidence>>

\* Mutation: the reader is joined without a deadline.
JoinReader_NoDeadline ==
    /\ fpc = "join" /\ reader \in {"idle", "done"} /\ reader' = "done"
    /\ IF reads = {} THEN Raise /\ UNCHANGED evidence
       ELSE Goto("after") /\ evidence' = [evidence EXCEPT !.reads = reads]
    /\ UNCHANGED <<fault, stage, proc, hit, target, wrote, bytes, reads>>

\* stop_reader.set() and join with its deadline; a reader stuck in a read
\* outlives it.
JoinReader ==
    /\ fpc = "join"
    /\ \/ reader = "stuck" /\ Raise /\ UNCHANGED <<reader, evidence>>
       \/ /\ reader \in {"idle", "done"} /\ reader' = "done"
          /\ IF reads = {} THEN Raise /\ UNCHANGED evidence
             ELSE Goto("after") /\ evidence' = [evidence EXCEPT !.reads = reads]
    /\ UNCHANGED <<fault, stage, proc, hit, target, wrote, bytes, reads>>

ReaderReads ==
    /\ reader = "idle" /\ fpc \in {"first", "replace", "join"}
    /\ \/ Cardinality(reads) < MaxIdentities /\ reads' = reads \cup {target} /\ UNCHANGED reader
       \/ reader' \in {"stuck", "done"} /\ UNCHANGED reads     \* blocked, or another error
    /\ UNCHANGED <<fault, stage, fpc, proc, hit, target, wrote, bytes, evidence>>

-----------------------------------------------------------------------------
(* Mutation of the target in place *)

ReadTarget ==
    /\ fpc = "read" /\ bytes' = target /\ Goto("mutate")
    /\ UNCHANGED <<fault, stage, proc, hit, target, wrote, reader, reads, evidence>>

Mutated(content) ==
    [content EXCEPT !.op = CASE fault = "corruption" -> "flipped"
                             [] fault = "audit_tail_gap" -> "truncated"
                             [] fault = "duplicate_operation" -> "appended"]

Mutate ==
    /\ fpc = "mutate" /\ Goto("after")
    /\ target' = Mutated(IF fault = "corruption" THEN bytes ELSE target)
    /\ evidence' = [evidence EXCEPT !.action = fault]
    /\ UNCHANGED <<fault, stage, proc, hit, wrote, bytes, reader, reads>>

\* target_after: the file fault has to have changed the target.
InspectTarget ==
    /\ fpc = "after"
    /\ evidence' = [evidence EXCEPT !.after = target]
    /\ Goto(IF target = evidence.before THEN "raised" ELSE "returned")
    /\ UNCHANGED <<fault, stage, proc, hit, target, wrote, bytes, reader, reads>>

\* The main thread's own reads, writes and ps have no deadline: any may be its
\* last step.
FaultBlocks ==
    /\ fpc \in {"process", "files", "recheck", "await", "replace", "read", "mutate", "after"}
    /\ Goto("blocked")
    /\ UNCHANGED <<fault, stage, proc, hit, target, wrote, bytes, reader, reads, evidence>>

-----------------------------------------------------------------------------
(* The staged process and the system *)

Injecting == fpc \notin {"idle", "returned", "raised"}

ProcessExits ==
    /\ Injecting /\ proc = "running" /\ proc' = "gone"
    /\ UNCHANGED <<fault, stage, fpc, hit, target, wrote, bytes, reader, reads, evidence>>

PidRecycled ==
    /\ Injecting /\ proc = "gone" /\ proc' = "recycled"
    /\ UNCHANGED <<fault, stage, fpc, hit, target, wrote, bytes, reader, reads, evidence>>

\* A recycled PID's process ends as well.
StrangerExits ==
    /\ Injecting /\ proc = "recycled" /\ hit = "stranger" /\ proc' = "gone"
    /\ UNCHANGED <<fault, stage, fpc, hit, target, wrote, bytes, reader, reads, evidence>>

ProcessWrites ==
    /\ Injecting /\ proc = "running" /\ ~wrote
    /\ target' = Content("process", "whole") /\ wrote' = TRUE
    /\ UNCHANGED <<fault, stage, fpc, proc, hit, bytes, reader, reads, evidence>>

Inject ==
    \/ CheckProcess \/ CheckFiles \/ RecheckProcess \/ Terminate \/ AwaitStopped
    \/ StartReader \/ FirstRead \/ Replace \/ ReplaceFails \/ JoinReader
    \/ ReadTarget \/ Mutate \/ InspectTarget

World == ReaderReads \/ ProcessExits \/ PidRecycled \/ StrangerExits \/ ProcessWrites

-----------------------------------------------------------------------------
(* Properties *)

Intended == CASE fault \in ReplacementFaults -> Content("replacement", "whole")
              [] OTHER -> Mutated(Staged)

\* Custody evidence is of a fault that happened.  A reported termination means
\* that the staged process has stopped after a signal; a reported file fault
\* means that the target differs from the checked one, holds exactly the
\* fault's change unless the process wrote it meanwhile, and that no reader is
\* left over, every identity it saw being the file before or after the whole
\* replacement.  Code: apply_persistence_fault.
FaultIsReal ==
    fpc = "returned" =>
        /\ fault \in ProcessFaults => evidence.terminated /\ proc = "gone" /\ hit # "none"
        /\ fault \in ReplacementFaults \cup MutationFaults =>
              /\ evidence.after # evidence.before /\ reader \in {"off", "done"}
              /\ wrote \/ evidence.after = Intended
              /\ wrote \/ evidence.reads \subseteq {evidence.before, evidence.after}
              /\ fault = "concurrent_reader_writer" => evidence.reads # {}
=============================================================================
