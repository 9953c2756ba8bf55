------------------------------ MODULE FileIntent ------------------------------
(***************************************************************************)
(* IntentRegistry of shared/file_intent.py: agents announce the files they *)
(* are about to edit, and are told who announced them before.              *)
(*                                                                         *)
(* A file of the repository has two spellings, absolute and relative to    *)
(* it; a registry that was given a repo_root normalises both to one path,  *)
(* outside its lock, and without one keeps the two apart.  The lock makes  *)
(* each operation on the dictionary atomic; what an agent has been told    *)
(* stays what it was.  The list of a path is the set of its intents, each  *)
(* with the number of its registration: registrations append, and nothing  *)
(* reorders.  Descriptions and risk levels are left out.                   *)
(***************************************************************************)
EXTENDS Naturals, FiniteSets, Sequences

CONSTANTS
    Agents, Files,
    IntentBound     \* registrations in a behaviour

VARIABLES
    rooted,     \* the registry was given a repo_root
    intents,    \* _intents: path -> its intents
    announced,  \* history: registrations made so far
    told        \* history: registration -> the registrations it was told of

intentVars == <<rooted, intents, announced, told>>

\* The ways to write the path of a file, and the path the registry uses.
Spellings == Files \X {"absolute", "relative"}
Normalize(path) == IF rooted THEN <<path[1], "relative">> ELSE path

NoIntents == [f \in {} |-> {}]

IntentInit ==
    /\ rooted \in BOOLEAN
    /\ intents = NoIntents
    /\ announced = 0
    /\ told = <<>>

IntentsOf(f) == IF f \in DOMAIN intents THEN intents[f] ELSE {}
Conflicts(a, list) == {i \in list : i.agent # a}

WithPath(f, list) == [g \in DOMAIN intents \union {f} |-> IF g = f THEN list ELSE intents[g]]

Register(a, path) ==
    /\ announced < IntentBound
    /\ LET f == Normalize(path)
           intent == [agent |-> a, number |-> announced + 1]
       IN  /\ told' = Append(told, {i.number : i \in Conflicts(a, IntentsOf(f))})
           /\ intents' = WithPath(f, IntentsOf(f) \union {intent})
    /\ announced' = announced + 1
    /\ UNCHANGED rooted

\* A path without intents is no longer a key.
WithoutAgent(a, fs) ==
    LET after == [f \in DOMAIN intents |-> IF f \in fs THEN Conflicts(a, intents[f]) ELSE intents[f]]
    IN  [f \in {g \in DOMAIN intents : after[g] # {}} |-> after[f]]

Release(a, path) ==
    /\ intents' = WithoutAgent(a, {Normalize(path)})
    /\ UNCHANGED <<rooted, announced, told>>

ReleaseAll(a) ==
    /\ intents' = WithoutAgent(a, DOMAIN intents)
    /\ UNCHANGED <<rooted, announced, told>>

ClearIntents ==
    /\ intents' = NoIntents
    /\ UNCHANGED <<rooted, announced, told>>

IntentNext ==
    \/ \E a \in Agents :
         \/ \E path \in Spellings : Register(a, path) \/ Release(a, path)
         \/ ReleaseAll(a)
    \/ ClearIntents

IntentSpec == IntentInit /\ [][IntentNext]_intentVars

\* get_agent_intents and get_conflicts
AgentIntents(a) == UNION {{i \in intents[f] : i.agent = a} : f \in DOMAIN intents}
ConflictedPaths == {f \in DOMAIN intents : Cardinality({i.agent : i \in intents[f]}) > 1}
-----------------------------------------------------------------------------
\* No conflict goes untold: of two agents that both hold an intent on a path,
\* the one that registered later was told of the earlier, whatever was released
\* in between; get_conflicts shows the path, no released path lingers, and no
\* registration is there twice. With a repo_root there is one path for a file,
\* whichever spelling each agent used.
EveryConflictTold ==
    \A f \in DOMAIN intents :
      /\ intents[f] # {}
      /\ rooted => \A g \in DOMAIN intents : f[1] = g[1] => f = g
      /\ \A i, j \in intents[f] :
           /\ i.number = j.number => i = j
           /\ i.number < j.number /\ i.agent # j.agent =>
                i.number \in told[j.number] /\ f \in ConflictedPaths
=============================================================================
