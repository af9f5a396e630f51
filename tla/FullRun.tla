------------------------------ MODULE FullRun ------------------------------
(***************************************************************************)
(* The benchmark orchestrator, full_run.sh: a script that measures six     *)
(* configurations in four stages, reboots or kexecs the machine between    *)
(* them, and finds its place again from marker files and a systemd unit    *)
(* that starts it at every boot.  reset.sh undoes a run.                   *)
(*                                                                         *)
(* Disk state survives a crash: the markers (state_setup, state_pmem, ...),*)
(* backup_cmdline, whether the unit is enabled, and the perf_results logs. *)
(* The kernel command line, the huge page pools, the running script and a  *)
(* kernel loaded with kexec -l do not.                                     *)
(***************************************************************************)
EXTENDS Naturals, Sequences, Functions

CONSTANTS
    LoopCount,      \* LOOP_COUNT of a run on real pmem
    MaxCrashes,     \* bound: power failures considered
    MaxResets       \* bound: runs of reset.sh considered

ASSUME LoopCountAssumption == LoopCount \in Nat \ {0}
ASSUME BoundsAssumption == MaxCrashes \in Nat /\ MaxResets \in Nat

VARIABLES
    prototype,  \* $1 = "prototype", which the unit passes on: emulated pmem
    markers,    \* the state_* files that exist
    enabled,    \* systemctl is-enabled benchmark
    backup,     \* backup_cmdline
    count,      \* configuration -> samples appended to its log
    samples,    \* the conditions under which the logged samples were taken
    cmdline,    \* options of the running kernel beyond its default ones
    pools,      \* page sizes with a reserved huge page pool
    pc,         \* where the machine and the script are
    byUnit,     \* the script was last started by the unit, not by hand
    stage,      \* the stage the script is in
    iter,       \* samples of this stage taken by this process
    crashes, resets

disk == <<markers, enabled, backup, count, samples>>
vars == <<prototype, disk, cmdline, pools, pc, byUnit, stage, iter, crashes, resets>>

Stages == <<"pmem", "dram4K", "dram2M", "dram1G">>

StageSet == Range(Stages)

\* The configurations of a stage, in the order of its loops.
Configs(s) == IF s = "pmem" THEN <<"pmem4K", "pmem2M", "pmem1G">> ELSE <<s>>

ConfigSet == {"pmem4K", "pmem2M", "pmem1G", "dram4K", "dram2M", "dram1G"}

\* Repetitions of one configuration.
Loops == IF prototype THEN 1 ELSE LoopCount

Total(s) == Loops * Len(Configs(s))

Options == {"memmap", "hp2M", "hp1G"}

\* default_hugepagesz of a kernel booted with options c: the last one given
\* counts, and the kernel's own default is 2M.
HugePageSize(c) ==
    IF \E i \in 1 .. Len(c) : /\ c[i] = "hp1G"
                             /\ \A j \in i + 1 .. Len(c) : c[j] = "memmap"
    THEN "1G" ELSE "2M"

Emulated(c) == "memmap" \in Range(c)

TypeOK ==
    /\ prototype \in BOOLEAN
    /\ markers \subseteq ({"setup"} \cup StageSet)
    /\ enabled \in BOOLEAN
    /\ backup \in Seq(Options)
    /\ count \in [ConfigSet -> Nat]
    /\ samples \subseteq [cfg : ConfigSet, hp : {"2M", "1G"},
                          emulated : BOOLEAN, pools : SUBSET {"2M", "1G"}]
    /\ cmdline \in Seq(Options)
    /\ pools \subseteq {"2M", "1G"}
    /\ pc \in {"down", "idle", "dispatch", "setup", "enable", "mark",
               "leave", "run", "touch", "reboot"}
    /\ byUnit \in BOOLEAN
    /\ stage \in StageSet
    /\ iter \in Nat
    /\ crashes \in 0..MaxCrashes
    /\ resets \in 0..MaxResets

Init ==
    /\ prototype = FALSE
    /\ markers = {}
    /\ enabled = FALSE
    /\ backup = << >>
    /\ count = [c \in ConfigSet |-> 0]
    /\ samples = {}
    /\ cmdline = << >>
    /\ pools = {}
    /\ pc = "idle"
    /\ byUnit = FALSE
    /\ stage = "pmem"
    /\ iter = 0
    /\ crashes = 0
    /\ resets = 0

(***************************************************************************)
(* The operator and the machine                                            *)
(***************************************************************************)

\* The operator starts the script by hand, when no unit would run it.
Start ==
    /\ pc = "idle" /\ ~enabled /\ markers = {}
    /\ prototype' \in BOOLEAN
    /\ pc' = "dispatch" /\ byUnit' = FALSE
    /\ UNCHANGED <<disk, cmdline, pools, stage, iter, crashes, resets>>

\* The machine comes up; an enabled unit starts the script.
Boot ==
    /\ pc = "down"
    /\ pc' = IF enabled THEN "dispatch" ELSE "idle"
    /\ byUnit' = enabled
    /\ UNCHANGED <<prototype, disk, cmdline, pools, stage, iter, crashes,
                   resets>>

\* Power failure: the next boot is from the disk, with the default options.
Crash ==
    /\ pc # "down" /\ crashes < MaxCrashes
    /\ crashes' = crashes + 1
    /\ cmdline' = << >> /\ pools' = {} /\ pc' = "down"
    /\ UNCHANGED <<prototype, byUnit, disk, stage, iter, resets>>

\* reset.sh: clears the pools, stops and disables the unit, removes markers
\* and results.  The kernel keeps running with its options.  An operator who
\* started the script by hand has interrupted it before.
Reset ==
    /\ pc # "down" /\ resets < MaxResets
    /\ resets' = resets + 1
    /\ pools' = {} /\ pc' = "idle" /\ enabled' = FALSE /\ markers' = {}
    /\ count' = [c \in ConfigSet |-> 0] /\ samples' = {}
    /\ UNCHANGED <<prototype, byUnit, backup, cmdline, stage, iter, crashes>>

(***************************************************************************)
(* full_run.sh                                                             *)
(***************************************************************************)

\* Stage i is the first, in script order, whose marker is missing.
NextStage(i) ==
    Stages[i] \notin markers /\ \A j \in 1 .. i - 1 : Stages[j] \in markers

\* The chain of "if [ ! -f state_X ]" tests.  The huge page stages reserve
\* their pool first.  When every marker exists the unit is disabled.
Dispatch ==
    /\ pc = "dispatch"
    /\ \/ /\ "setup" \notin markers
          /\ pc' = "setup"
          /\ UNCHANGED <<enabled, pools, stage, iter>>
       \/ /\ "setup" \in markers
          /\ \E i \in 1 .. Len(Stages) : NextStage(i) /\ stage' = Stages[i]
          /\ iter' = 0
          /\ pools' = pools \cup (CASE stage' = "dram2M" -> {"2M"}
                                    [] stage' = "dram1G" -> {"1G"}
                                    [] OTHER -> {})
          /\ pc' = "run"
          /\ UNCHANGED enabled
       \/ /\ {"setup"} \cup StageSet \subseteq markers
          /\ enabled' = FALSE
          /\ pc' = "idle"
          /\ UNCHANGED <<pools, stage, iter>>
    /\ UNCHANGED <<prototype, byUnit, markers, backup, count, samples, cmdline,
                   crashes, resets>>

\* setup.sh, the problem size edits and backup_cmdline.
Setup ==
    /\ pc = "setup"
    /\ backup' = cmdline
    /\ pc' = "enable"
    /\ UNCHANGED <<prototype, byUnit, markers, enabled, count, samples, cmdline, pools,
                   stage, iter, crashes, resets>>

\* Mistake: the unit is written but not enabled.
WriteServiceOnly ==
    /\ pc = "enable"
    /\ pc' = "mark"
    /\ UNCHANGED <<prototype, byUnit, disk, cmdline, pools, stage, iter, crashes,
                   resets>>

\* The unit is written and enabled before state_setup is touched.
EnableService ==
    /\ pc = "enable"
    /\ enabled' = TRUE
    /\ pc' = "mark"
    /\ UNCHANGED <<prototype, byUnit, markers, backup, count, samples, cmdline, pools,
                   stage, iter, crashes, resets>>

TouchSetup ==
    /\ pc = "mark"
    /\ markers' = markers \cup {"setup"}
    /\ pc' = "leave"
    /\ UNCHANGED <<prototype, byUnit, enabled, backup, count, samples, cmdline, pools,
                   stage, iter, crashes, resets>>

\* Prototype: kexec into a kernel with emulated pmem.  Otherwise the unit is
\* started at once and this process exits; if this process is the unit, which a
\* power failure before TouchSetup makes do the setup, there is nothing to start.
LeaveSetup ==
    /\ pc = "leave"
    /\ \/ /\ prototype
          /\ cmdline' = Append(backup, "memmap") /\ pools' = {} /\ pc' = "down"
          /\ UNCHANGED byUnit
       \/ /\ ~prototype
          /\ pc' = IF byUnit THEN "idle" ELSE "dispatch"
          /\ byUnit' = TRUE
          /\ UNCHANGED <<cmdline, pools>>
    /\ UNCHANGED <<prototype, disk, stage, iter, crashes, resets>>

\* Mistake: the loop over seq stops one sample early.
RunSampleOneShort ==
    /\ pc = "run"
    /\ LET cfg == Configs(stage)[1 + (iter \div Loops)]
       IN  count' = [count EXCEPT ![cfg] = @ + 1]
    /\ iter' = iter + 1
    /\ pc' = IF iter' + 1 >= Total(stage) THEN "touch" ELSE "run"
    /\ UNCHANGED <<prototype, byUnit, markers, enabled, backup, samples, cmdline,
                   pools, stage, crashes, resets>>

\* One ./pmem.sh or ./dram.sh: a sample is appended to the logs named after
\* TLB_SIZE, whatever the machine it ran on looks like.
RunSample ==
    /\ pc = "run" /\ iter < Total(stage)
    /\ LET cfg == Configs(stage)[1 + (iter \div Loops)]
       IN  /\ count' = [count EXCEPT ![cfg] = @ + 1]
           /\ samples' = samples \cup
                {[cfg |-> cfg, hp |-> HugePageSize(cmdline),
                  emulated |-> Emulated(cmdline), pools |-> pools]}
    /\ iter' = iter + 1
    /\ pc' = IF iter' = Total(stage) THEN "touch" ELSE "run"
    /\ UNCHANGED <<prototype, byUnit, markers, enabled, backup, cmdline, pools, stage,
                   crashes, resets>>

TouchStage ==
    /\ pc = "touch"
    /\ markers' = markers \cup {stage}
    /\ pc' = "reboot"
    /\ UNCHANGED <<prototype, byUnit, enabled, backup, count, samples, cmdline, pools,
                   stage, iter, crashes, resets>>

\* The options appended to backup_cmdline for the stage after s.
KexecOption(s) == CASE s = "dram4K" -> "hp2M" [] s = "dram2M" -> "hp1G"

\* Mistake: the pmem stage goes on to the dram stages without a reboot.
LeaveStageInPlace ==
    /\ pc = "reboot"
    /\ pc' = "dispatch"
    /\ UNCHANGED <<prototype, byUnit, disk, cmdline, pools, stage, iter, crashes,
                   resets>>

\* How a stage ends: pmem by shutdown -r, the 4K and 2M stages by kexec, the
\* 1G stage by clearing its pool and exiting with the machine left up.
LeaveStage ==
    /\ pc = "reboot"
    /\ \/ /\ stage = "pmem"
          /\ cmdline' = << >> /\ pools' = {} /\ pc' = "down"
       \/ /\ stage \in {"dram4K", "dram2M"}
          /\ cmdline' = Append(backup, KexecOption(stage))
          /\ pools' = {} /\ pc' = "down"
       \/ /\ stage = "dram1G"
          /\ pools' = pools \ {"1G"} /\ pc' = "idle"
          /\ UNCHANGED cmdline
    /\ UNCHANGED <<prototype, byUnit, disk, stage, iter, crashes, resets>>

\* The operator's own reboot of an idle machine.
Restart ==
    /\ pc = "idle" /\ enabled
    /\ cmdline' = << >> /\ pools' = {} /\ pc' = "down"
    /\ UNCHANGED <<prototype, byUnit, disk, stage, iter, crashes, resets>>

Script ==
    \/ Dispatch \/ Setup \/ EnableService \/ TouchSetup \/ LeaveSetup
    \/ RunSample \/ TouchStage \/ LeaveStage

Next == Start \/ Boot \/ Crash \/ Reset \/ Restart \/ Script

Spec == Init /\ [][Next]_vars

\* The script's processes run and the machine boots; the operator starts a
\* fresh run.  Nothing makes an idle machine reboot, crash or be reset.
FairSpec == Spec /\ WF_vars(Start) /\ WF_vars(Boot) /\ WF_vars(Script)

(***************************************************************************)
(* Properties                                                              *)
(***************************************************************************)

\* A marked stage has all its repetitions, and only a crash in the middle of
\* the stage can have repeated any: the logs are appended to, never emptied.
SamplesComplete ==
    \A s \in StageSet : \A c \in Range(Configs(s)) :
        /\ count[c] <= Loops * (1 + crashes)
        /\ s \in markers => count[c] >= Loops

\* The pool of huge pages that HUGECTL_CMD and TLB_SIZE promise for c.
PoolOf(c) ==
    CASE c = "dram2M" -> {"2M"} [] c = "dram1G" -> {"1G"} [] OTHER -> {}

\* What a log's name says is what was measured: the page size of hugectl is
\* the kernel's default_hugepagesz, and the 4K and pmem samples run with no
\* memory set aside for huge pages.
PageSizeAsLabelled ==
    \A m \in samples :
        /\ m.cfg = "dram1G" => m.hp = "1G"
        /\ m.cfg = "dram2M" => m.hp = "2M"
        /\ m.pools = PoolOf(m.cfg)

\* The same, for runs that no power failure interrupts.
PageSizeWithoutCrash == crashes = 0 => PageSizeAsLabelled

\* In a prototype run, the pmem samples are taken on a kernel that emulates
\* pmem if nothing interrupts it.  No dram sample ever is, even after crashes,
\* unless reset.sh left the run to start again on such a kernel.
EmulationAsLabelled ==
    \A m \in samples :
        /\ m.cfg \in Range(Configs("pmem")) /\ prototype /\ crashes = 0 =>
              m.emulated
        /\ m.cfg \notin Range(Configs("pmem")) /\ resets = 0 => ~m.emulated

\* Both together: the conditions a sample was taken under are those its log names.
MeasuredAsLabelled == PageSizeWithoutCrash /\ EmulationAsLabelled

\* The unit has done the setup itself and is over, with nothing measured: the
\* machine stands idle until somebody reboots it.
Stalled ==
    /\ pc = "idle" /\ enabled /\ markers = {"setup"}
    /\ ~prototype /\ crashes > 0

\* However often it is interrupted, the run ends with every stage measured, or
\* stalls after the setup, which takes a power failure and a run on real pmem.
Finishes == <>[](StageSet \subseteq markers) \/ <>[]Stalled

============================================================================
