------------------------------ MODULE RewardRoots ------------------------------
(***************************************************************************)
(* The worker indexes the merkle roots of a reward program.  A cron task   *)
(* asks the subgraph for the roots from the last indexed block on and adds *)
(* a job for each; the jobs run one at a time, once (maxAttempts 1), and   *)
(* insert the index row and the proofs in a transaction.                   *)
(*                                                                         *)
(* All tasks of a worker share one database connection (getClient), the    *)
(* transaction too: what another task writes between its BEGIN and its end *)
(* belongs to it.  Each query is a step.  The subgraph and S3 are external.*)
(***************************************************************************)
EXTENDS Integers, FiniteSets, Sequences, SequencesExt

CONSTANTS
  Cycles,       \* payment cycles of the program
  Block,        \* the block in which the root of each was submitted
  IndexLimit,   \* MAX_INDEX_SIZE_PER_PROGRAM
  Checks,       \* runs of check-reward-roots in progress at a time
  OtherWrites,  \* writes of other tasks of the worker
  MaxFailures,  \* bound: jobs that fail, and dead workers
  MaxChecks,    \* bound: runs of check-reward-roots
  NoCycle

ASSUME RootsAssumption ==
  /\ Block \in [Cycles -> Nat \ {0}] /\ IndexLimit \in Nat \ {0} /\ NoCycle \notin Cycles
  /\ MaxFailures \in Nat /\ MaxChecks \in Nat

VARIABLES
  head,        \* the block up to which the subgraph has indexed
  index,       \* committed rows of reward_root_index
  queue,       \* the queue of process-reward-root jobs
  job,         \* the job that runs, and its control state
  check,       \* roots that each check still has to add, and its control state
  checks,      \* checks so far
  open,        \* the connection is in a transaction, with these writes
  done, kept,  \* the other tasks' writes that returned, and those in the database
  failed,      \* cycles whose job failed
  failures

rootVars == <<head, index, queue, job, check, checks, open, done, kept, failed, failures>>
connection == <<index, open, done, kept>>

----------------------------------------------------------------------------

JobSteps == {"idle", "read", "single", "begin", "index", "proofs", "commit", "rollback"}
CheckSteps == {"idle", "query", "add"}
Transaction == [active: BOOLEAN, aborted: BOOLEAN, index: SUBSET Cycles,
                others: SUBSET OtherWrites]

RootsTypeOK ==
  /\ head \in Nat /\ index \subseteq Cycles /\ queue \in Seq(Cycles)
  /\ job \in [pc: JobSteps, cycle: Cycles \cup {NoCycle}]
  /\ check \in [Checks -> [pc: CheckSteps, from: Nat, roots: SUBSET Cycles]]
  /\ checks \in 0..MaxChecks /\ open \in Transaction
  /\ done \subseteq OtherWrites /\ kept \subseteq OtherWrites
  /\ failed \subseteq Cycles /\ failures \in 0..MaxFailures

NoJob == [pc |-> "idle", cycle |-> NoCycle]
NoCheck == [pc |-> "idle", from |-> 0, roots |-> {}]
NoTransaction == [active |-> FALSE, aborted |-> FALSE, index |-> {}, others |-> {}]

RootsInit ==
  /\ head = 0 /\ index = {} /\ queue = <<>> /\ job = NoJob
  /\ check = [k \in Checks |-> NoCheck] /\ checks = 0
  /\ open = NoTransaction /\ done = {} /\ kept = {} /\ failed = {} /\ failures = 0

----------------------------------------------------------------------------
(* check-reward-roots. *)

\* LAST_INDEXED_BLOCK_QUERY, on the shared connection: it sees the open transaction.
Indexed == index \cup open.index
LastIndexedBlock ==
  IF Indexed = {} THEN 0 ELSE CHOOSE b \in {Block[c] : c \in Indexed} :
                                \A c \in Indexed : Block[c] <= b

\* getRewardRoots: from a block on, in the order of their blocks.
RootsAfter(from) == {c \in Cycles : Block[c] <= head /\ Block[c] > from}
RootsFrom(from) == {c \in Cycles : Block[c] <= head /\ Block[c] >= from}
Smaller(a, b) == IF a < b THEN a ELSE b
FirstRoots(roots) ==
  {some \in SUBSET roots :
     /\ Cardinality(some) = Smaller(IndexLimit, Cardinality(roots))
     /\ \A c \in some, d \in roots \ some : Block[c] <= Block[d]}

StartCheck(k) ==
  /\ check[k].pc = "idle" /\ checks < MaxChecks /\ checks' = checks + 1 /\ ~open.aborted
  /\ check' = [check EXCEPT ![k] = [NoCheck EXCEPT !.pc = "query", !.from = LastIndexedBlock]]
  /\ UNCHANGED <<head, queue, job, connection, failed, failures>>

\* The check adds jobs for these, one after the other, and ends.
Adding(roots) == IF roots = {} THEN NoCheck ELSE [pc |-> "add", from |-> 0, roots |-> roots]

QueryRoots(k) ==
  /\ check[k].pc = "query"
  /\ \E roots \in FirstRoots(RootsFrom(check[k].from)) :
       check' = [check EXCEPT ![k] = Adding(roots)]
  /\ UNCHANGED <<head, queue, job, checks, connection, failed, failures>>

\* addJob, whose key replaces a job of the cycle that waits or has failed.
Without(c) ==
  IF Contains(queue, c) THEN RemoveAt(queue, CHOOSE i \in 1..Len(queue) : queue[i] = c) ELSE queue
AddRootJob(k) ==
  /\ check[k].pc = "add"
  /\ \E c \in check[k].roots :
       /\ \A d \in check[k].roots : Block[c] <= Block[d]
       /\ queue' = Append(Without(c), c)
       /\ check' = [check EXCEPT ![k] = Adding(@.roots \ {c})]
  /\ UNCHANGED <<head, job, checks, connection, failed, failures>>

----------------------------------------------------------------------------
(* process-reward-root. *)

JobAt(pc) == job.pc = pc
JobGoto(pc) == job' = [job EXCEPT !.pc = pc]

StartRootJob ==
  /\ JobAt("idle") /\ queue # <<>>
  /\ job' = [pc |-> "read", cycle |-> Head(queue)] /\ queue' = Tail(queue)
  /\ UNCHANGED <<head, check, checks, connection, failed, failures>>

\* queryParquet: there are proofs that have not expired, or there are none (they have
\* expired, or S3 does not have the file).
ReadProofs ==
  /\ JobAt("read") /\ (JobGoto("begin") \/ JobGoto("single"))
  /\ UNCHANGED <<head, queue, check, checks, connection, failed, failures>>

\* Without proofs the index row is inserted by itself; a duplicate is ignored.
InsertOne ==
  /\ JobAt("single") /\ job' = NoJob
  /\ index' = index \cup {job.cycle}
  /\ UNCHANGED <<head, queue, check, checks, open, done, kept, failed, failures>>

BeginIndex ==
  /\ JobAt("begin") /\ JobGoto("index") /\ open' = [open EXCEPT !.active = TRUE]
  /\ UNCHANGED <<head, queue, check, checks, index, done, kept, failed, failures>>

\* A duplicate (23505) aborts the transaction.
InsertIndex ==
  /\ JobAt("index")
  /\ IF job.cycle \in index
       THEN JobGoto("rollback") /\ open' = [open EXCEPT !.aborted = TRUE]
       ELSE JobGoto("proofs") /\ open' = [open EXCEPT !.index = {job.cycle}]
  /\ UNCHANGED <<head, queue, check, checks, index, done, kept, failed, failures>>

InsertProofs ==
  /\ JobAt("proofs") /\ JobGoto("commit")
  /\ UNCHANGED <<head, queue, check, checks, connection, failed, failures>>

CommitIndex ==
  /\ JobAt("commit") /\ job' = NoJob /\ open' = NoTransaction
  /\ index' = index \cup open.index /\ kept' = kept \cup open.others
  /\ UNCHANGED <<head, queue, check, checks, done, failed, failures>>

\* The error of a duplicate is not an error of the job.
RollbackIndex ==
  /\ JobAt("rollback") /\ job' = NoJob /\ open' = NoTransaction
  /\ UNCHANGED <<head, queue, check, checks, index, done, kept, failed, failures>>

\* S3 or an insert fails, or the worker dies: the job has had its attempt.
RootJobFails ==
  /\ ~JobAt("idle") /\ failures < MaxFailures /\ failures' = failures + 1
  /\ job' = NoJob /\ failed' = failed \cup {job.cycle} /\ open' = NoTransaction
  /\ UNCHANGED <<head, queue, check, checks, index, done, kept>>

----------------------------------------------------------------------------
(* Other tasks, and the chain. *)

\* A write of another task (wyre-transfer, say): while the transaction is aborted
\* it is refused.
OtherWrite(w) ==
  /\ w \notin done /\ ~open.aborted /\ done' = done \cup {w}
  /\ IF open.active THEN open' = [open EXCEPT !.others = @ \cup {w}] /\ UNCHANGED kept
                    ELSE kept' = kept \cup {w} /\ UNCHANGED open
  /\ UNCHANGED <<head, index, queue, job, check, checks, failed, failures>>

SubgraphAdvances ==
  /\ \E c \in Cycles : Block[c] > head /\ \A d \in Cycles : Block[d] > head => Block[c] <= Block[d]
                       /\ head' = Block[c]
  /\ UNCHANGED <<queue, job, check, checks, connection, failed, failures>>

RootsNext ==
  \/ \E k \in Checks : StartCheck(k) \/ QueryRoots(k) \/ AddRootJob(k)
  \/ StartRootJob \/ ReadProofs \/ InsertOne \/ BeginIndex \/ InsertIndex \/ InsertProofs
  \/ CommitIndex \/ RollbackIndex \/ RootJobFails
  \/ \E w \in OtherWrites : OtherWrite(w)
  \/ SubgraphAdvances

RootsSpec == RootsInit /\ [][RootsNext]_rootVars

----------------------------------------------------------------------------
(* Properties. *)

\* A root that was submitted is indexed, or has a job, or a check is about to add
\* one or will find it again, unless its job failed (and a later root was indexed
\* before the next check): getRewardRoots asks for blocks from the last indexed on.
InHand(c) ==
  \/ c \in Indexed \/ Contains(queue, c) \/ job.cycle = c
  \/ \E k \in Checks : c \in check[k].roots
  \/ \E from \in {LastIndexedBlock} \cup {check[k].from : k \in Checks} : c \in RootsFrom(from)
RootSkippedOnlyAfterFailure ==
  \A c \in Cycles : Block[c] <= head => InHand(c) \/ c \in failed

\* The jobs that a check adds for cycles that are indexed already do no harm to
\* what other tasks wrote: "redundant jobs (same payment cycle) are fine since they
\* return although they are submitted" (subgraph.ts:163).
RedundantJobsAreFine == failures = 0 => done \subseteq kept \cup open.others
==============================================================================
