----------------------------- MODULE RunAdmission -----------------------------
(***************************************************************************)
(* The hook controller (registerRuntimeHooks, src/src/openclaw/runtime.ts) *)
(* and its scratch map (src/src/core/index.ts): which Runs are admitted,   *)
(* bound and refused, and what a drain waits for.                          *)
(*                                                                         *)
(* A call is one hook of a Run that goes through prepareEligibleRun. The   *)
(* owner of a build registers it in promptBuilds; a call that finds one    *)
(* registered joins it. An await whose promise is settled goes on before   *)
(* any other event, so a build that ends resumes the calls that joined it  *)
(* in the same step. What a build awaits is a place of its own, except     *)
(* compilation and routing, between which nothing shared is read.          *)
(*                                                                         *)
(* Run ids are taken as present and their calls as eligible: the others    *)
(* change nothing here. What a call looks at outside this state (health,   *)
(* the input's size, the router's answer) is an arbitrary choice.          *)
(***************************************************************************)
EXTENDS Naturals, FiniteSets

CONSTANTS
    Runs,       \* run ids
    Calls,      \* hooks that can be pending at one time
    NoCall,
    MaxActive,  \* limits.max_active_runs
    Overlap     \* may the host send a hook or the end of a Run that still
                \* has a call whose registration is gone?

\* Refusals are remembered up to four times the limit (trimOldestRunIds).
ASSUME LimitAssumption ==
    /\ MaxActive \in Nat \ {0}
    /\ IsFiniteSet(Runs) /\ Cardinality(Runs) <= 4 * MaxActive
ASSUME CallAssumption == NoCall \notin Calls
ASSUME OverlapAssumption == Overlap \in BOOLEAN

VARIABLES
    mode,            \* observe or enforce, for the life of the Plugin
    call,            \* the pending hooks
    promptBuilds,    \* the registered build of each Run
    scratch,         \* Runs that have a binding
    injectedPackets, \* Runs that have a packet
    rejectedRuns, invalidatedRuns,
    admissionClosed,
    gate,            \* the durable maintenance gate
    phase            \* of the sync that closes and drains

memory == <<promptBuilds, scratch, injectedPackets, rejectedRuns, invalidatedRuns>>
barrier == <<admissionClosed, gate, phase>>
vars == <<mode, call, memory, barrier>>

Places == {"joined", "gate", "checks", "building", "revalidate", "quarantine"}
Pending == [pc: Places, run: Runs, owner: BOOLEAN, stale: BOOLEAN, on: Calls \union {NoCall}]
Idle == [pc |-> "idle"]
Enforced == mode = "enforce"

RunOf(c) == call[c].run
At(c, place) == call[c].pc = place
CallsOf(r) == {c \in Calls : call[c] # Idle /\ RunOf(c) = r}
Registered == {r \in Runs : promptBuilds[r] # NoCall}

\* A call whose registration a reset, an expiry or another call has removed.
Orphan(c) == call[c].owner /\ promptBuilds[RunOf(c)] # c

TypeOK ==
    /\ mode \in {"observe", "enforce"}
    /\ call \in [Calls -> Pending \union {Idle}]
    /\ promptBuilds \in [Runs -> Calls \union {NoCall}]
    /\ scratch \subseteq Runs /\ injectedPackets \subseteq Runs
    /\ rejectedRuns \subseteq Runs /\ invalidatedRuns \subseteq Runs
    /\ admissionClosed \in BOOLEAN /\ gate \in BOOLEAN
    /\ phase \in {"open", "draining", "drained", "timed out"}

Init ==
    /\ mode \in {"observe", "enforce"}
    /\ call = [c \in Calls |-> Idle]
    /\ promptBuilds = [r \in Runs |-> NoCall]
    /\ scratch = {} /\ injectedPackets = {}
    /\ rejectedRuns = {} /\ invalidatedRuns = {}
    /\ admissionClosed = FALSE /\ gate = FALSE /\ phase = "open"

-----------------------------------------------------------------------------
(* The start and the end of a call.                                        *)

\* Where buildPromptContext first waits, for a Run bound or not.
Entry(r, own, bound) ==
    [pc |-> IF bound THEN "revalidate" ELSE "gate", run |-> r,
     owner |-> own, stale |-> FALSE, on |-> NoCall]

JoinedTo(c) == {d \in Calls : At(d, "joined") /\ call[d].on = c}

\* The finally of prepareEligibleRun, whosever registration it now is.
Unregisters(c) ==
    promptBuilds' = IF call[c].owner THEN [promptBuilds EXCEPT ![RunOf(c)] = NoCall]
                                     ELSE promptBuilds

\* Mutant: only a build that succeeds is unregistered (no finally).
Throws_KeepsRegistration(c) ==
    /\ call' = [d \in Calls |-> IF d = c \/ d \in JoinedTo(c) THEN Idle ELSE call[d]]
    /\ UNCHANGED promptBuilds

\* Mutant: those who joined are not told.
Throws_ForgetsJoined(c) ==
    /\ call' = [call EXCEPT ![c] = Idle]
    /\ Unregisters(c)

\* The build fails, for its owner and for those who joined it.
Throws(c) ==
    /\ call' = [d \in Calls |-> IF d = c \/ d \in JoinedTo(c) THEN Idle ELSE call[d]]
    /\ Unregisters(c)

\* The build ends; those who joined it start over, without a registration.
Returns(c) ==
    LET r == RunOf(c)
        bound == r \in scratch'
        refused == ~bound /\ admissionClosed
        Resumed == IF refused THEN Idle ELSE Entry(r, FALSE, bound)
    IN  /\ call' = [d \in Calls |-> IF d = c THEN Idle
                                    ELSE IF d \in JoinedTo(c) THEN Resumed ELSE call[d]]
        /\ rejectedRuns' = IF refused /\ Enforced /\ JoinedTo(c) # {}
                           THEN rejectedRuns \union {r} ELSE rejectedRuns
        /\ Unregisters(c)

\* rejectUnavailable: enforce records the refusal and throws, observe goes
\* on without a binding.
Refuse(c) ==
    /\ UNCHANGED <<mode, scratch, injectedPackets, invalidatedRuns, barrier>>
    /\ \/ Enforced /\ rejectedRuns' = rejectedRuns \union {RunOf(c)} /\ Throws(c)
       \/ ~Enforced /\ Returns(c)

Goes(c, place) ==
    /\ call' = [call EXCEPT ![c].pc = place]
    /\ UNCHANGED <<mode, memory, barrier>>

-----------------------------------------------------------------------------
(* before_agent_run and before_prompt_build.                               *)

MayHook(r) == r \notin rejectedRuns /\ (Overlap \/ \A c \in CallsOf(r) : ~Orphan(c))

Joins(c, r) ==
    /\ call[c] = Idle /\ MayHook(r) /\ promptBuilds[r] # NoCall
    /\ call' = [call EXCEPT ![c] = [Entry(r, FALSE, FALSE) EXCEPT !.pc = "joined",
                                                                 !.on = promptBuilds[r]]]
    /\ UNCHANGED <<mode, memory, barrier>>

Enters(c, r) ==
    /\ call[c] = Idle /\ MayHook(r) /\ promptBuilds[r] = NoCall
    /\ r \in scratch \/ ~admissionClosed
    /\ call' = [call EXCEPT ![c] = Entry(r, TRUE, r \in scratch)]
    /\ promptBuilds' = [promptBuilds EXCEPT ![r] = c]
    /\ UNCHANGED <<mode, scratch, injectedPackets, rejectedRuns, invalidatedRuns, barrier>>

\* A new Run while admission is closed; nothing is awaited.
RefusedAtOnce(r) ==
    /\ MayHook(r) /\ promptBuilds[r] = NoCall
    /\ r \notin scratch /\ admissionClosed /\ Enforced
    /\ rejectedRuns' = rejectedRuns \union {r}
    /\ UNCHANGED <<mode, call, promptBuilds, scratch, injectedPackets, invalidatedRuns, barrier>>

LoadsGate(c) == At(c, "gate") /\ ~gate /\ Goes(c, "checks")

\* Mutant: only bindings are counted, not the builds on their way to one.
Full_IgnoresBuilds == Cardinality(scratch) >= MaxActive

\* The owner of a registered build counts itself.
Full == Cardinality(scratch) + Cardinality(Registered) >= MaxActive

\* Mutant: a Run that lost its binding may be bound again.
PassesChecks_Forgets(c) == At(c, "checks") /\ ~Full /\ Goes(c, "building")

PassesChecks(c) ==
    /\ At(c, "checks") /\ RunOf(c) \notin invalidatedRuns /\ ~Full
    /\ Goes(c, "building")

\* A closed or unreadable gate; the checks; a compilation, a route or an
\* acquisition that fails; a reset since the call began; a failed revalidation.
Refused(c) ==
    /\ call[c].pc \in {"gate", "checks", "building", "revalidate"}
    /\ Refuse(c)

\* Mutant: the lifecycle epoch is not compared.
Binds_AfterReset(c) ==
    /\ At(c, "building")
    /\ RunOf(c) \in scratch \/ Cardinality(scratch) < MaxActive
    /\ scratch' = scratch \union {RunOf(c)}
    /\ injectedPackets' = IF Enforced THEN injectedPackets \union {RunOf(c)} ELSE injectedPackets
    /\ Returns(c)
    /\ UNCHANGED <<mode, invalidatedRuns, barrier>>

\* scratch.acquire, which keeps the binding a Run has.
Binds(c) ==
    /\ At(c, "building") /\ ~call[c].stale
    /\ RunOf(c) \in scratch \/ Cardinality(scratch) < MaxActive
    /\ scratch' = scratch \union {RunOf(c)}
    /\ injectedPackets' = IF Enforced THEN injectedPackets \union {RunOf(c)} ELSE injectedPackets
    /\ Returns(c)
    /\ UNCHANGED <<mode, invalidatedRuns, barrier>>

\* The Run may have lost its binding since the call read it.
Revalidates(c) ==
    /\ At(c, "revalidate")
    /\ UNCHANGED <<mode, scratch, injectedPackets, invalidatedRuns, barrier>>
    /\ Returns(c)

\* rejectDomainFailure, up to its first await and from there to its end.
DomainFails(c) ==
    /\ call[c].pc \in {"building", "revalidate"}
    /\ admissionClosed' = TRUE
    /\ call' = [call EXCEPT ![c].pc = "quarantine"]
    /\ UNCHANGED <<mode, memory, gate, phase>>

Quarantines(c) ==
    /\ At(c, "quarantine")
    /\ gate' \in {gate, TRUE}
    /\ rejectedRuns' = rejectedRuns \union {RunOf(c)}
    /\ Throws(c)
    /\ UNCHANGED <<mode, scratch, injectedPackets, invalidatedRuns, admissionClosed, phase>>

-----------------------------------------------------------------------------
(* The end of a Run, expiry and lifecycle cleanup.                         *)

\* agent_end. Its release of the scratch does not invalidate the Run.
AgentEnd(r) ==
    /\ Overlap \/ CallsOf(r) = {}
    /\ scratch' = scratch \ {r} /\ injectedPackets' = injectedPackets \ {r}
    /\ rejectedRuns' = rejectedRuns \ {r} /\ invalidatedRuns' = invalidatedRuns \ {r}
    /\ promptBuilds' = [promptBuilds EXCEPT ![r] = NoCall]
    /\ UNCHANGED <<mode, call, barrier>>

\* The time to live of a scratch runs out (cleanupExpired, onEvict).
Expires(r) ==
    /\ r \in scratch
    /\ scratch' = scratch \ {r} /\ injectedPackets' = injectedPackets \ {r}
    /\ promptBuilds' = [promptBuilds EXCEPT ![r] = NoCall]
    /\ invalidatedRuns' = invalidatedRuns \union {r}
    /\ UNCHANGED <<mode, call, rejectedRuns, barrier>>

ClearLifecycle ==
    /\ call' = [c \in Calls |-> IF call[c] = Idle \/ At(c, "joined") THEN call[c]
                                ELSE [call[c] EXCEPT !.stale = TRUE]]
    /\ promptBuilds' = [r \in Runs |-> NoCall]
    /\ scratch' = {} /\ injectedPackets' = {} /\ rejectedRuns' = {}
    /\ invalidatedRuns' = invalidatedRuns \union rejectedRuns \union scratch
    /\ UNCHANGED <<mode, barrier>>

-----------------------------------------------------------------------------
(* The sync that closes the gate, waits for the Runs and opens it again.   *)

CloseAdmission ==
    /\ phase = "open"
    /\ phase' = "draining" /\ gate' = TRUE /\ admissionClosed' = TRUE
    /\ UNCHANGED <<mode, call, memory>>

Busy == scratch # {} \/ Registered # {}

Drains ==
    /\ phase = "draining" /\ ~Busy
    /\ phase' = "drained"
    /\ UNCHANGED <<mode, call, memory, admissionClosed, gate>>

DrainTimesOut ==
    /\ phase = "draining" /\ Busy
    /\ phase' = "timed out"
    /\ UNCHANGED <<mode, call, memory, admissionClosed, gate>>

\* The sync has completed, or has restored what it found.
OpenAdmission ==
    /\ phase \in {"drained", "timed out"}
    /\ phase' = "open" /\ gate' = FALSE /\ admissionClosed' = FALSE
    /\ UNCHANGED <<mode, call, memory>>

Proceeds(c) ==
    \/ LoadsGate(c) \/ PassesChecks(c) \/ Refused(c) \/ Binds(c)
    \/ Revalidates(c) \/ DomainFails(c) \/ Quarantines(c)

Next ==
    \/ \E c \in Calls, r \in Runs : Joins(c, r) \/ Enters(c, r)
    \/ \E r \in Runs : RefusedAtOnce(r) \/ AgentEnd(r) \/ Expires(r)
    \/ \E c \in Calls : Proceeds(c)
    \/ ClearLifecycle \/ CloseAdmission \/ Drains \/ DrainTimesOut \/ OpenAdmission

Spec == Init /\ [][Next]_vars

(***************************************************************************)
(* Every wait of a call is bounded (file reads, and a router with a        *)
(* timeout), a scratch expires, and the drain polls. Nothing is assumed of *)
(* the host, of resets or of the sync, nor that a drain may time out.      *)
(***************************************************************************)
FairSpec ==
    /\ Spec
    /\ \A c \in Calls : WF_vars(Proceeds(c))
    /\ \A r \in Runs : WF_vars(Expires(r))
    /\ WF_vars(Drains)

-----------------------------------------------------------------------------
(* Properties.                                                             *)

(* Once the drain has seen no Run, no Run has a binding until admission is *)
(* opened again: a build under way when admission closes is waited for,    *)
(* and whatever ends later binds nothing (drain counts scratch and         *)
(* promptBuilds; the epoch check, runtime.ts:570).                         *)
DrainedStaysDrained == phase = "drained" /\ Enforced => scratch = {}

(* A Run that was refused, or whose binding was lost to a reset or to      *)
(* expiry, is never bound again before its agent_end, whichever of its     *)
(* concurrent hooks goes on (rejectedRuns and invalidatedRuns).            *)
RefusedIsFinal ==
    [][Enforced => scratch' \ scratch \subseteq Runs \ (rejectedRuns \union invalidatedRuns)]_vars

\* Runs whose build has passed the checks and may still bind.
Underway == {r \in Runs : \E c \in CallsOf(r) : At(c, "building") /\ ~call[c].stale}

(* Capacity is checked before the compilation and the router's answer and  *)
(* used after them: whatever is bound, expires or is reset meanwhile, the  *)
(* Runs that have a binding and those that have passed the check together  *)
(* stay below the limit (the caller's own registration counts, so the last *)
(* place is not given), and no build finds the map full when it binds      *)
(* (runtime.ts:511, acquire in core/index.ts:99) .                         *)
CapacityKept == Enforced => Cardinality(scratch \union Underway) < MaxActive

(* In enforce a hook that ends leaves its Run bound or refused, so that no *)
(* Run goes on to the model without a binding.                             *)
NoRunGoesOnUnbound ==
    [][Enforced => \A c \in Calls :
          call[c] # Idle /\ call'[c] = Idle => RunOf(c) \in scratch' \union rejectedRuns']_vars

(* What a drain waits for comes to an end, and nothing new comes in behind *)
(* it. This abstracts from time: a scratch that was bound or touched after *)
(* the drain began has the drain's own timeout to live (runtime.ts:370),   *)
(* and outlives its deadline unless the Run ends before.                   *)
DrainCompletes == phase = "draining" ~> phase # "draining"

(* Every hook gets its answer, those that joined a build too.              *)
HooksReturn == \A c \in Calls : call[c] # Idle ~> call[c] = Idle

===============================================================================
