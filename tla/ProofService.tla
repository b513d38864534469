---------------------------- MODULE ProofService ----------------------------
(***************************************************************************)
(* What the command prove promises to the commands that read its file,     *)
(* without Prover.toml, nargo, bb or the files that they leave behind: a   *)
(* process writes proof_package.json for a true claim only, and what it    *)
(* writes is the package of its own job and of no other.  It promises      *)
(* neither to succeed nor that the file stays whole.                       *)
(***************************************************************************)
CONSTANTS
    Procs, JobsOf, Cwd,      \* as in ProverPipeline
    Missing, Torn,
    Claim(_),                \* what a proof of the job would prove
    PackageOf(_)             \* the one package of the job

VARIABLES
    stage,                   \* idle, working, saving or ended
    job,                     \* the job of each process
    package                  \* proof_package.json of each working directory

vars == <<stage, job, package>>

Init ==
    /\ stage = [p \in Procs |-> "idle"]
    /\ job = [p \in Procs |-> Missing]
    /\ package = [dir \in {Cwd[p] : p \in Procs} |-> Missing]

\* A process is started, and may give up at once.
Begin(p, j) ==
    /\ stage[p] \in {"idle", "ended"}
    /\ \E next \in {"working", "ended"} : stage' = [stage EXCEPT ![p] = next]
    /\ job' = [job EXCEPT ![p] = j]
    /\ UNCHANGED package

GiveUp(p) ==
    /\ stage[p] \in {"working", "saving"}
    /\ stage' = [stage EXCEPT ![p] = "ended"]
    /\ UNCHANGED <<job, package>>

\* Only for a true claim is the file touched at all.
Open(p) ==
    /\ stage[p] = "working" /\ Claim(job[p])
    /\ stage' = [stage EXCEPT ![p] = "saving"]
    /\ package' = [package EXCEPT ![Cwd[p]] = Torn]
    /\ UNCHANGED job

\* A file that another process wrote to since it was opened may end up torn.
Save(p) ==
    /\ stage[p] = "saving"
    /\ stage' = [stage EXCEPT ![p] = "ended"]
    /\ \/ package' = [package EXCEPT ![Cwd[p]] = PackageOf(job[p])]
       \/ package[Cwd[p]] # Torn /\ package' = [package EXCEPT ![Cwd[p]] = Torn]
    /\ UNCHANGED job

Next ==
    \E p \in Procs :
        \/ \E j \in JobsOf[p] : Begin(p, j)
        \/ Open(p) \/ Save(p) \/ GiveUp(p)

Spec == Init /\ [][Next]_vars

=============================================================================
