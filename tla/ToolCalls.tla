------------------------------ MODULE ToolCalls ------------------------------
(***************************************************************************)
(* A process that runs tool calls of agents, and what each call passes on  *)
(* its way: mcp_server/server_interceptor.py with the kill switch, the     *)
(* circuit breaker, the budget and the scope fence, then the approval gate, *)
(* then the tool, then the charge to the budget.                           *)
(* The web server runs each call in a thread of a pool; the MCP process is *)
(* another host of calls, in which nobody can answer an approval.  The     *)
(* kill switch is a flag in memory and a file shared with other processes. *)
(***************************************************************************)
EXTENDS Naturals, FiniteSets

CONSTANTS Calls, Tools,
          Level2,        \* tools of LEVEL_APPROVE
          Answers, AlwaysAllow, Allow, Timeout, None,
          MaxThreads,    \* of _db_executor
          Limit,         \* total_actions of the budget
          MaxEvents      \* bound: kills, resumes, resets and restarts

ASSUME CallAssumption ==
  /\ IsFiniteSet(Calls) /\ Level2 \subseteq Tools
  /\ {Allow, AlwaysAllow} \subseteq Answers
  /\ Timeout \notin Answers /\ None \notin Answers /\ None # Timeout /\ None \notin Tools
  /\ MaxThreads \in Nat \ {0} /\ Limit \in Nat \ {0}
  /\ MaxEvents \in Nat

VARIABLES threads,       \* of the web server's pool; 0 in the MCP process
          pc,            \* where a call is
          tool,          \* the tool it calls
          stage, pending, decision, late, result, acked,   \* the approval gate
          rules,         \* tools with an auto-approve rule (SQLite)
          used,          \* total actions charged to the budget
          latched,       \* AgentKillSwitch._killed
          flag,          \* data/agent_kill.flag exists
          killing,       \* kill() has set the memory and not yet the file
          resuming,      \* resume() has cleared the memory and not yet the file
          halted,        \* history: a kill has returned, no resume since
          barred,        \* history: calls that arrived while halted
          ran,           \* history: calls whose tool was started
          covered,       \* history: calls let through by a rule
          events         \* kills, resumes, resets and restarts so far

gate == <<stage, pending, decision, late, result, acked>>
switch == <<latched, flag, killing, resuming, halted>>
ghosts == <<barred, ran, covered>>
vars == <<threads, pc, tool, gate, rules, used, switch, ghosts, events>>

Gate == INSTANCE ApprovalGate WITH Requests <- Calls

InPool == {"budget", "gate", "ask", "run", "charge"}
Ends == {"done", "blocked", "lost"}
PCs == {"new", "queued"} \cup InPool \cup Ends

Init ==
  /\ threads \in 0..MaxThreads
  /\ tool = [c \in Calls |-> None]
  /\ pc = [c \in Calls |-> "new"]
  /\ Gate!Init
  /\ rules = {} /\ used = 0
  /\ latched = FALSE /\ flag = FALSE /\ killing = FALSE /\ resuming = FALSE
  /\ halted = FALSE /\ barred = {} /\ ran = {} /\ covered = {}
  /\ events = 0

(* Wrong variants of the definitions below, for the mutation checks.       *)
MemoryOnly == latched
AnyRoom == TRUE
Granted(c) == result[c] # None
Unlimited == TRUE

At(c, place) == pc[c] = place
Goto(c, place) == pc' = [pc EXCEPT ![c] = place]

Arrive(c, t) ==
  /\ At(c, "new") /\ Goto(c, "queued") /\ tool' = [tool EXCEPT ![c] = t]
  /\ barred' = IF halted THEN barred \cup {c} ELSE barred
  /\ UNCHANGED <<threads, gate, rules, used, switch, ran, covered, events>>

(* run_db_sync: the call waits for a thread of the pool and keeps it until *)
(* it ends, the wait for an approval included.  The MCP process has no     *)
(* pool.                                                                   *)
Running == {c \in Calls : pc[c] \in InPool}
serves == threads > 0
HasThread == serves => Cardinality(Running) < threads

(* The first thing a call does in its thread is to test the switch.         *)
(* is_killed remembers a flag it has seen.                                 *)
IsKilled == latched \/ flag

Start(c) ==
  /\ At(c, "queued") /\ HasThread
  /\ latched' = IsKilled
  /\ Goto(c, IF IsKilled THEN "blocked" ELSE "budget")
  /\ UNCHANGED <<threads, tool, gate, rules, used, flag, killing, resuming, halted, ghosts, events>>

(* check of the budget; the circuit breaker before it and the scope fence   *)
(* after it may refuse the call as well.                                    *)
WithinBudget == used < Limit

CheckBudget(c) ==
  /\ At(c, "budget")
  /\ \/ WithinBudget /\ Goto(c, "gate")
     \/ Goto(c, "blocked")
  /\ UNCHANGED <<threads, tool, gate, rules, used, switch, ghosts, events>>

(* check_hitl_gate up to the wait.                                         *)
HasRule(c) == tool[c] \in rules

EnterGate(c) ==
  /\ At(c, "gate")
  /\ \/ /\ tool[c] \notin Level2
        /\ Goto(c, "run") /\ UNCHANGED <<gate, covered>>
     \/ /\ tool[c] \in Level2 /\ HasRule(c)
        /\ covered' = covered \cup {c}
        /\ Goto(c, "run") /\ UNCHANGED gate
     \/ /\ tool[c] \in Level2 /\ ~HasRule(c)
        /\ Gate!Create(c)
        /\ Goto(c, "ask") /\ UNCHANGED covered
  /\ UNCHANGED <<threads, tool, rules, used, switch, barred, ran, events>>

(* The wait, with what the user and the clock do meanwhile.                *)
Waiting(c) ==
  /\ Gate!Wake(c) \/ Gate!TimeOut(c) \/ Gate!Return(c)
  /\ UNCHANGED <<threads, pc, tool, rules, used, switch, ghosts, events>>

Clock(c) ==
  /\ Gate!Elapse(c)
  /\ UNCHANGED <<threads, pc, tool, rules, used, switch, ghosts, events>>

(* The routes of the approvals reach the gate of the web server only.      *)
Answer(c, a) ==
  /\ serves /\ Gate!Respond(c, a)
  /\ UNCHANGED <<threads, pc, tool, rules, used, switch, ghosts, events>>

ListPending ==
  /\ serves /\ Gate!GetPending
  /\ UNCHANGED <<threads, pc, tool, rules, used, switch, ghosts, events>>

(* check_hitl_gate after the wait.  "Always" also adds a rule, which        *)
(* add_auto_approve_rule may fail to do: it logs that, and the tool runs.   *)
Granting(c) == result[c] \in {Allow, AlwaysAllow}

Heed(c) ==
  /\ At(c, "ask") /\ result[c] # None
  /\ Goto(c, IF Granting(c) THEN "run" ELSE "blocked")
  /\ \/ UNCHANGED rules
     \/ result[c] = AlwaysAllow /\ rules' = rules \cup {tool[c]}
  /\ UNCHANGED <<threads, tool, gate, used, switch, ghosts, events>>

RemoveRule(t) ==
  /\ t \in rules /\ rules' = rules \ {t}
  /\ UNCHANGED <<threads, pc, tool, gate, used, switch, ghosts, events>>

Run(c) ==
  /\ At(c, "run") /\ Goto(c, "charge")
  /\ ran' = ran \cup {c}
  /\ UNCHANGED <<threads, tool, gate, rules, used, switch, barred, covered, events>>

(* record_success or record_error: either way one action is charged.       *)
Charge(c) ==
  /\ At(c, "charge") /\ Goto(c, "done")
  /\ used' = used + 1
  /\ UNCHANGED <<threads, tool, gate, rules, switch, ghosts, events>>

Event == events < MaxEvents /\ events' = events + 1

ResetBudget ==
  /\ serves /\ Event
  /\ used' = 0
  /\ UNCHANGED <<threads, pc, tool, gate, rules, switch, ghosts>>

(* kill(): memory, then file.  A file that cannot be written is logged; the *)
(* kill holds in this process only, and until its end.  A kill by another   *)
(* process, or by the Rust server, is the file.                             *)
KillHere ==
  /\ serves /\ ~killing /\ Event
  /\ latched' = TRUE /\ killing' = TRUE
  /\ UNCHANGED <<threads, pc, tool, gate, rules, used, flag, resuming, halted, ghosts>>

KillStored ==
  /\ killing /\ killing' = FALSE
  /\ \/ flag' = TRUE /\ halted' = TRUE
     \/ UNCHANGED <<flag, halted>>
  /\ UNCHANGED <<threads, pc, tool, gate, rules, used, latched, resuming, ghosts, events>>

KillElsewhere ==
  /\ Event
  /\ flag' = TRUE /\ halted' = TRUE
  /\ UNCHANGED <<threads, pc, tool, gate, rules, used, latched, killing, resuming, ghosts>>

(* resume(): memory, then file, whose removal may fail.  From its beginning  *)
(* to its end the fate of the calls that a kill has stopped is open.        *)
ResumeHere ==
  /\ serves /\ ~resuming /\ Event
  /\ latched' = FALSE /\ resuming' = TRUE
  /\ halted' = FALSE /\ barred' = {}
  /\ UNCHANGED <<threads, pc, tool, gate, rules, used, flag, killing, ran, covered>>

ResumeStored ==
  /\ resuming /\ resuming' = FALSE
  /\ flag' = FALSE \/ flag' = flag
  /\ halted' = FALSE /\ barred' = {}
  /\ UNCHANGED <<threads, pc, tool, gate, rules, used, latched, killing, ran, covered, events>>

ResumeElsewhere ==
  /\ Event
  /\ flag' = FALSE /\ halted' = FALSE /\ barred' = {}
  /\ UNCHANGED <<threads, pc, tool, gate, rules, used, latched, killing, resuming, ran,
                 covered>>

(* The process ends and is started again: the counters, the pending         *)
(* requests and the memory of the switch are gone, the file is read.        *)
Latch == flag

Restart ==
  /\ Event
  /\ pc' = [c \in Calls |-> IF pc[c] \in Ends \cup {"new"} THEN pc[c] ELSE "lost"]
  /\ Gate!Crash
  /\ used' = 0 /\ latched' = Latch /\ killing' = FALSE /\ resuming' = FALSE
  /\ UNCHANGED <<threads, tool, rules, flag, halted, ghosts>>

Step(c) ==
  \/ Start(c) \/ CheckBudget(c) \/ EnterGate(c) \/ Waiting(c)
  \/ Heed(c) \/ Run(c) \/ Charge(c)

Next ==
  \/ \E c \in Calls :
       \/ Step(c) \/ Clock(c)
       \/ \E t \in Tools : Arrive(c, t)
       \/ \E a \in Answers : Answer(c, a)
  \/ \E t \in Tools : RemoveRule(t)
  \/ ListPending \/ ResetBudget
  \/ KillHere \/ KillStored \/ KillElsewhere
  \/ ResumeHere \/ ResumeStored \/ ResumeElsewhere
  \/ Restart

Spec == Init /\ [][Next]_vars

(* Threads are scheduled and time passes; users do not have to answer.      *)
FairSpec == Spec /\ \A c \in Calls : WF_vars(Step(c)) /\ WF_vars(Clock(c))
-----------------------------------------------------------------------------
TypeOK ==
  /\ threads \in 0..MaxThreads
  /\ pc \in [Calls -> PCs] /\ tool \in [Calls -> Tools \cup {None}]
  /\ \A c \in Calls : pc[c] # "new" => tool[c] \in Tools
  /\ Gate!TypeOK
  /\ rules \subseteq Tools /\ used \in Nat
  /\ latched \in BOOLEAN /\ flag \in BOOLEAN
  /\ killing \in BOOLEAN /\ resuming \in BOOLEAN /\ halted \in BOOLEAN
  /\ barred \subseteq Calls /\ ran \subseteq Calls /\ covered \subseteq Calls

(* "Immediately stop all agent operations" (kill_switch.py:1): a call that  *)
(* arrives after a kill has returned, in this process or in another, never  *)
(* runs its tool, also if the process is restarted, unless a resume begins. *)
(* Calls past the check go on: the kill is not tested again.                *)
KillHolds == barred \cap ran = {}

Approved(c) == c \in covered \/ acked[c] \in {Allow, AlwaysAllow}

(* A tool of level 2 runs only if its own request was granted by an answer  *)
(* that was accepted, or a rule of its tool let it through.                 *)
ApprovedOnly ==
  \A c \in ran : tool[c] \in Level2 => Approved(c)

(* The budget is checked before the wait for an approval and charged after  *)
(* the tool.  In the web server the calls in between are at most the        *)
(* threads of the pool, which bounds how far the limit is overrun.          *)
BoundedOverrun == serves => used <= Limit + threads - 1

(* The gate keeps its promise in this use.                                  *)
IsOneDecision == Gate!IsOneDecision

(* Every call ends, though it occupies a thread while it waits for a user   *)
(* who may never answer, and queued calls wait for that thread.             *)
CallsEnd == \A c \in Calls : pc[c] # "new" ~> pc[c] \in Ends

(* Does not hold: "Deactivate the Kill Switch to resume agent operations"   *)
(* (docs/en/api/agent.md:46).  A process that has seen the file of another  *)
(* remembers it, and stays killed when the other removes it.                *)
ResumeResumes == [][ResumeElsewhere => ~latched']_vars

(* Does not hold: an accepted answer is heeded.                             *)
AnswerStands == Gate!AnswerStands

(* Does not hold: a request that waits can be answered.  The routes, and    *)
(* the user, see the gate of the web server only.                           *)
Answerable == \A c \in Calls : pc[c] = "ask" => serves

(* Does not hold: no tool is started while the switch is killed.            *)
NoStartWhileKilled == [][halted /\ halted' => ran' = ran]_vars
=============================================================================
