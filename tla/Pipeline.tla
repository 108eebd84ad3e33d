------------------------------ MODULE Pipeline ------------------------------
(***************************************************************************)
(* PipelineEngine (src/pipeline.rs): which agents work a bead of a given   *)
(* issue type, in which order, and what follows when one of them finishes. *)
(* The engine keeps no state of its own: these are pure operators.         *)
(***************************************************************************)
EXTENDS Naturals, Sequences

CONSTANTS
    IssueTypes,
    Agents,
    FallbackAgent,   \* DEFAULT_AGENT, "dev-agent"
    NoAgent,         \* Option::None for an agent name
    Definitions,     \* configured issue types -> sequence of agents
    MaxDepth,        \* dispatch.max_pipeline_depth, 0 = unlimited
    MaxRetries,
    MaxReverts       \* MAX_CONSECUTIVE_REVERTS

ASSUME PipelineAssumption ==
    /\ FallbackAgent \in Agents
    /\ NoAgent \notin Agents
    /\ DOMAIN Definitions \subseteq IssueTypes
    /\ \A t \in DOMAIN Definitions : Definitions[t] \in Seq(Agents)
    /\ MaxDepth \in Nat
    /\ MaxRetries \in Nat
    /\ MaxReverts \in Nat

Truncated(agents) ==
    IF MaxDepth > 0 /\ Len(agents) > MaxDepth
      THEN SubSeq(agents, 1, MaxDepth)
      ELSE agents

AgentsFor(type) ==
    Truncated(IF type \in DOMAIN Definitions THEN Definitions[type]
                                             ELSE <<FallbackAgent>>)

DefaultAgent(type) ==
    IF AgentsFor(type) = <<>> THEN FallbackAgent ELSE AgentsFor(type)[1]

\* Iterator::position: the FIRST place of an agent in the sequence.
IsFirstPlace(agents, agent, i) ==
    /\ i \in 1..Len(agents)
    /\ agents[i] = agent
    /\ \A j \in 1..(i - 1) : agents[j] # agent

\* The agent after `agent`, or NoAgent at the end or when it is not listed.
NextAgent(type, agent) ==
    LET agents == AgentsFor(type)
    IN  IF \E i \in 1..(Len(agents) - 1) : IsFirstPlace(agents, agent, i)
          THEN agents[1 + CHOOSE i \in 1..(Len(agents) - 1) :
                              IsFirstPlace(agents, agent, i)]
          ELSE NoAgent

Verdicts == {"passed", "failed", "none"}

Actions == {"advance", "terminal", "retry", "deadletter"}

\* Faulty: the limits are passed before they are noticed.
ExhaustedLate(retries, reverts) == retries > MaxRetries \/ reverts > MaxReverts

\* decide(): the one place where the retry budget is compared with its limits.
Exhausted(retries, reverts) == retries >= MaxRetries \/ reverts >= MaxReverts

Decide(type, agent, exitOk, verdict, retries, reverts) ==
    IF ~exitOk \/ verdict = "failed"
      THEN IF Exhausted(retries, reverts) THEN "deadletter" ELSE "retry"
      ELSE IF agent # NoAgent /\ NextAgent(type, agent) # NoAgent
             THEN "advance"
             ELSE "terminal"
=============================================================================
