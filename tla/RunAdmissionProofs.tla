-------------------------- MODULE RunAdmissionProofs --------------------------
(***************************************************************************)
(* Why a drain that has seen no Run stays drained, and why a refusal is    *)
(* final, whatever the number of Runs, hooks and the limit, for a host     *)
(* that does not overlap a Run's hooks with a call that lost its           *)
(* registration.                                                           *)
(***************************************************************************)
EXTENDS RunAdmission, FiniteSetTheorems, TLAPS

Approaching(c) == call[c].pc \in {"gate", "checks"}
Building(c) == call[c].pc = "building"
Fresh(c) == Building(c) /\ ~call[c].stale

\* A registration is that of a pending owner, the only one of its Run.
RegisteredOwner ==
    \A r \in Runs : promptBuilds[r] # NoCall =>
        /\ call[promptBuilds[r]] # Idle
        /\ call[promptBuilds[r]].owner /\ RunOf(promptBuilds[r]) = r
        /\ \A c \in CallsOf(r) : call[c].owner => c = promptBuilds[r]

\* A joined call owns nothing, before it resumes or after.
JoinedOwnsNothing == \A c \in Calls : At(c, "joined") => ~call[c].owner

\* Admission stays closed as long as the sync has it so.
ClosedDuringSync == phase # "open" => admissionClosed

\* A call without a registration of its own found its Run bound, and the
\* Run has since kept its binding or lost it for good.
UnownedWasBound ==
    \A c \in Calls : call[c] # Idle /\ ~At(c, "joined") =>
        /\ ~call[c].owner \/ At(c, "revalidate") => RunOf(c) \in scratch \union invalidatedRuns
        /\ ~call[c].owner => ~Building(c)
        /\ ~call[c].owner /\ Approaching(c) => RunOf(c) \in invalidatedRuns

\* An owner on its way to a binding is registered unless it is stale, and
\* its Run is not bound; it is not refused either, or the checks will see.
FreshIsRegistered ==
    \A c \in Calls : call[c] # Idle /\ call[c].owner /\ ~call[c].stale =>
        /\ Approaching(c) \/ Building(c) =>
              promptBuilds[RunOf(c)] = c /\ RunOf(c) \notin scratch
        /\ Approaching(c) => RunOf(c) \notin rejectedRuns \ invalidatedRuns
        /\ Building(c) => RunOf(c) \notin rejectedRuns \union invalidatedRuns

DrainedIsIdle == phase = "drained" => scratch = {} /\ Registered = {}

Strong ==
    /\ TypeOK
    /\ RegisteredOwner
    /\ JoinedOwnsNothing
    /\ ClosedDuringSync
    /\ Enforced => UnownedWasBound /\ FreshIsRegistered /\ DrainedIsIdle


-----------------------------------------------------------------------------
LEMMA IdleType == Idle.pc = "idle" /\ Idle \notin Pending
BY DEF Idle, Pending, Places

LEMMA InitStrong == Init => Strong
<1> SUFFICES ASSUME Init PROVE Strong
    OBVIOUS
<1>1. \A c \in Calls : call[c] = Idle /\ call[c].pc = "idle"
    BY IdleType DEF Init
<1>2. TypeOK
    BY DEF Init, TypeOK
<1>3. RegisteredOwner /\ JoinedOwnsNothing /\ ClosedDuringSync
    BY <1>1 DEF Init, RegisteredOwner, JoinedOwnsNothing, ClosedDuringSync, At
<1>4. UnownedWasBound /\ FreshIsRegistered /\ DrainedIsIdle
    BY <1>1 DEF Init, UnownedWasBound, FreshIsRegistered, DrainedIsIdle
<1> QED
    BY <1>2, <1>3, <1>4 DEF Strong

(* What the type of a pending call and of an idle one tell apart.          *)
LEMMA CallTypes ==
    ASSUME TypeOK, NEW c \in Calls
    PROVE  /\ call[c] = Idle \/ call[c] \in Pending
           /\ call[c].pc \in Places => call[c] \in Pending /\ call[c] # Idle
           /\ call[c] \in Pending => call[c] # Idle /\ call[c].pc \in Places /\ RunOf(c) \in Runs
<1>1. call[c] = Idle \/ call[c] \in Pending
    BY DEF TypeOK
<1>2. \A k \in Pending : k.pc \in Places /\ k.run \in Runs
    BY DEF Pending
<1> QED
    BY <1>1, <1>2, IdleType DEF Places, RunOf

LEMMA JoinsStep ==
    ASSUME Strong, NEW c \in Calls, NEW r \in Runs, Joins(c, r)
    PROVE  Strong'
<1> DEFINE k == [Entry(r, FALSE, FALSE) EXCEPT !.pc = "joined", !.on = promptBuilds[r]]
<1>1. k \in Pending /\ k.pc = "joined" /\ k.owner = FALSE /\ k # Idle
    BY DEF Joins, Strong, TypeOK, Entry, Pending, Places, Idle
<1>2. /\ call' = [call EXCEPT ![c] = k] /\ call[c] = Idle
      /\ UNCHANGED <<mode, memory, barrier>>
    BY DEF Joins
<1> HIDE DEF k
<1>3. TypeOK'
    BY <1>1, <1>2 DEF Strong, TypeOK, memory, barrier
<1>4. \A d \in Calls : call'[d] = IF d = c THEN k ELSE call[d]
    BY <1>2 DEF Strong, TypeOK
<1>5. RegisteredOwner'
    BY <1>1, <1>2, <1>4 DEF Strong, TypeOK, RegisteredOwner, memory, CallsOf, RunOf
<1>6. JoinedOwnsNothing' /\ ClosedDuringSync'
    BY <1>1, <1>2, <1>4 DEF Strong, JoinedOwnsNothing, ClosedDuringSync, barrier, At
<1>7. ASSUME Enforced' PROVE UnownedWasBound'
    BY <1>1, <1>2, <1>4, <1>7 DEF Strong, UnownedWasBound, Enforced, memory, RunOf, At,
        Approaching, Building
<1>8. ASSUME Enforced' PROVE FreshIsRegistered'
    BY <1>1, <1>2, <1>4, <1>8 DEF Strong, FreshIsRegistered, Enforced, memory, RunOf,
        Approaching, Building
<1>9. ASSUME Enforced' PROVE DrainedIsIdle'
    BY <1>2, <1>9 DEF Strong, DrainedIsIdle, Enforced, Registered, memory, barrier
<1> QED
    BY <1>3, <1>5, <1>6, <1>7, <1>8, <1>9 DEF Strong

LEMMA EntersStep ==
    ASSUME Strong, ~Overlap, NEW c \in Calls, NEW r \in Runs, Enters(c, r)
    PROVE  Strong'
<1> DEFINE k == Entry(r, TRUE, r \in scratch)
<1>1. /\ k \in Pending /\ k # Idle /\ k.owner = TRUE /\ k.run = r /\ k.stale = FALSE
      /\ k.pc = IF r \in scratch THEN "revalidate" ELSE "gate"
    BY DEF Entry, Pending, Places, Idle
<1>2. /\ call' = [call EXCEPT ![c] = k] /\ call[c] = Idle
      /\ promptBuilds' = [promptBuilds EXCEPT ![r] = c] /\ promptBuilds[r] = NoCall
      /\ r \in scratch \/ ~admissionClosed
      /\ \A d \in CallsOf(r) : ~Orphan(d)
      /\ r \notin rejectedRuns
      /\ UNCHANGED <<mode, scratch, injectedPackets, rejectedRuns, invalidatedRuns, barrier>>
    BY DEF Enters, MayHook
<1> HIDE DEF k
<1>3. TypeOK'
    BY <1>1, <1>2 DEF Strong, TypeOK, barrier
<1>4. \A d \in Calls : call'[d] = IF d = c THEN k ELSE call[d]
    BY <1>2 DEF Strong, TypeOK
<1>5. \A q \in Runs : promptBuilds'[q] = IF q = r THEN c ELSE promptBuilds[q]
    BY <1>2 DEF Strong, TypeOK
<1>6. \A d \in CallsOf(r) : ~call[d].owner
    BY <1>2, CallAssumption DEF Orphan, CallsOf, RunOf
<1>7. RegisteredOwner'
  <2> SUFFICES ASSUME NEW q \in Runs, promptBuilds'[q] # NoCall
               PROVE  /\ call'[promptBuilds'[q]] # Idle
                      /\ call'[promptBuilds'[q]].owner /\ RunOf(promptBuilds[q])' = q
                      /\ \A d \in CallsOf(q)' : call'[d].owner => d = promptBuilds'[q]
    BY DEF RegisteredOwner
  <2>1. CASE q = r
    BY <1>1, <1>4, <1>5, <1>6, <2>1 DEF CallsOf, RunOf
  <2>2. CASE q # r
    <3>1. promptBuilds'[q] = promptBuilds[q] /\ promptBuilds[q] \in Calls \ {c}
        BY <1>2, <1>5, <2>2 DEF Strong, TypeOK, RegisteredOwner
    <3>2. CallsOf(q)' = CallsOf(q)
        BY <1>1, <1>2, <1>4, <2>2 DEF CallsOf, RunOf
    <3>3. /\ call[promptBuilds[q]] # Idle
          /\ call[promptBuilds[q]].owner /\ call[promptBuilds[q]].run = q
          /\ \A d \in CallsOf(q) : call[d].owner => d = promptBuilds[q]
        BY <3>1, CallAssumption DEF Strong, RegisteredOwner, RunOf
    <3>4. \A d \in CallsOf(q) : call'[d] = call[d]
        BY <1>2, <1>4 DEF CallsOf
    <3> QED
        BY <1>4, <3>1, <3>2, <3>3, <3>4 DEF RunOf
  <2> QED
    BY <2>1, <2>2
<1>8. JoinedOwnsNothing' /\ ClosedDuringSync'
    BY <1>1, <1>2, <1>4 DEF Strong, JoinedOwnsNothing, ClosedDuringSync, barrier, At
<1>9. ASSUME Enforced' PROVE UnownedWasBound'
    BY <1>1, <1>2, <1>4, <1>9 DEF Strong, UnownedWasBound, Enforced, RunOf, At,
        Approaching, Building
<1>10. ASSUME Enforced' PROVE FreshIsRegistered'
    BY <1>1, <1>2, <1>4, <1>5, <1>6, <1>10, CallTypes
       DEF Strong, FreshIsRegistered, Enforced, CallsOf, RunOf, Approaching, Building
<1>11. ASSUME Enforced' PROVE DrainedIsIdle'
    BY <1>2, <1>5, <1>11 DEF Strong, DrainedIsIdle, ClosedDuringSync, Enforced, Registered, barrier
<1> QED
    BY <1>3, <1>7, <1>8, <1>9, <1>10, <1>11 DEF Strong


-----------------------------------------------------------------------------
(* Calls that only move.                                                   *)

LEMMA Moved ==
    ASSUME TypeOK, NEW c \in Calls, call[c] # Idle, NEW place \in Places,
           call' = [call EXCEPT ![c].pc = place]
    PROVE  /\ call' \in [Calls -> Pending \union {Idle}]
           /\ call'[c].pc = place /\ call'[c] # Idle
           /\ call'[c].run = call[c].run /\ call'[c].owner = call[c].owner
           /\ call'[c].stale = call[c].stale
           /\ \A d \in Calls \ {c} : call'[d] = call[d]
<1>1. call[c] \in Pending
    BY CallTypes
<1>2. [call[c] EXCEPT !.pc = place] \in Pending
    BY <1>1 DEF Pending
<1>3. call'[c] = [call[c] EXCEPT !.pc = place]
    BY DEF TypeOK
<1> QED
    BY <1>1, <1>2, <1>3, IdleType DEF TypeOK, Pending

(* Ownership and registrations survive a step that keeps both.             *)
LEMMA OwnersKept ==
    ASSUME TypeOK, RegisteredOwner, promptBuilds' = promptBuilds,
           \A d \in Calls : /\ call'[d] = Idle <=> call[d] = Idle
                            /\ call'[d].run = call[d].run /\ call'[d].owner = call[d].owner
    PROVE  RegisteredOwner'
<1>1. \A q \in Runs : CallsOf(q)' = CallsOf(q)
    BY DEF CallsOf, RunOf
<1>2. \A q \in Runs : promptBuilds[q] # NoCall => promptBuilds[q] \in Calls
    BY DEF TypeOK
<1>3. \A q \in Runs : CallsOf(q) \subseteq Calls
    BY DEF CallsOf
<1> QED
    BY <1>1, <1>2, <1>3 DEF RegisteredOwner, RunOf

LEMMA GoesStep ==
    ASSUME Strong, NEW c \in Calls, LoadsGate(c) \/ PassesChecks(c)
    PROVE  Strong'
<1>1. PICK place \in {"checks", "building"} :
        /\ Goes(c, place)
        /\ call[c].pc = IF place = "checks" THEN "gate" ELSE "checks"
        /\ place = "building" => RunOf(c) \notin invalidatedRuns
    BY DEF LoadsGate, PassesChecks, At
<1>2. place \in Places /\ call[c] # Idle
    BY <1>1, CallTypes DEF Strong, Places
<1>3. /\ call' = [call EXCEPT ![c].pc = place]
      /\ UNCHANGED <<mode, memory, barrier>>
    BY <1>1 DEF Goes
<1>4. /\ call' \in [Calls -> Pending \union {Idle}]
      /\ call'[c].pc = place /\ call'[c] # Idle
      /\ call'[c].run = call[c].run /\ call'[c].owner = call[c].owner
      /\ call'[c].stale = call[c].stale
      /\ \A d \in Calls \ {c} : call'[d] = call[d]
    BY <1>2, <1>3, Moved DEF Strong
<1>5. TypeOK'
    BY <1>3, <1>4 DEF Strong, TypeOK, memory, barrier
<1>6. RegisteredOwner'
    BY <1>2, <1>3, <1>4, OwnersKept DEF Strong, memory
<1>7. JoinedOwnsNothing' /\ ClosedDuringSync'
    BY <1>1, <1>3, <1>4 DEF Strong, JoinedOwnsNothing, ClosedDuringSync, barrier, At
<1>8. ASSUME Enforced' PROVE UnownedWasBound'
    BY <1>1, <1>2, <1>3, <1>4, <1>8
       DEF Strong, UnownedWasBound, Enforced, memory, RunOf, At, Approaching, Building
<1>9. ASSUME Enforced' PROVE FreshIsRegistered'
    BY <1>1, <1>2, <1>3, <1>4, <1>9
       DEF Strong, FreshIsRegistered, Enforced, memory, RunOf, Approaching, Building
<1>10. ASSUME Enforced' PROVE DrainedIsIdle'
    BY <1>3, <1>10 DEF Strong, DrainedIsIdle, Enforced, Registered, memory, barrier
<1> QED
    BY <1>5, <1>6, <1>7, <1>8, <1>9, <1>10 DEF Strong

LEMMA DomainFailsStep ==
    ASSUME Strong, NEW c \in Calls, DomainFails(c)
    PROVE  Strong'
<1>1. "quarantine" \in Places /\ call[c] # Idle /\ call[c].pc \in {"building", "revalidate"}
    BY CallTypes DEF DomainFails, Strong, Places
<1>2. /\ call' = [call EXCEPT ![c].pc = "quarantine"]
      /\ admissionClosed' = TRUE
      /\ UNCHANGED <<mode, memory, gate, phase>>
    BY DEF DomainFails
<1>3. /\ call' \in [Calls -> Pending \union {Idle}]
      /\ call'[c].pc = "quarantine" /\ call'[c] # Idle
      /\ call'[c].run = call[c].run /\ call'[c].owner = call[c].owner
      /\ call'[c].stale = call[c].stale
      /\ \A d \in Calls \ {c} : call'[d] = call[d]
    BY <1>1, <1>2, Moved DEF Strong
<1>4. TypeOK'
    BY <1>2, <1>3 DEF Strong, TypeOK, memory
<1>5. RegisteredOwner'
    BY <1>1, <1>2, <1>3, OwnersKept DEF Strong, memory
<1>6. JoinedOwnsNothing' /\ ClosedDuringSync'
    BY <1>2, <1>3 DEF Strong, JoinedOwnsNothing, ClosedDuringSync, At
<1>7. ASSUME Enforced' PROVE UnownedWasBound'
    BY <1>1, <1>2, <1>3, <1>7
       DEF Strong, UnownedWasBound, Enforced, memory, RunOf, At, Approaching, Building
<1>8. ASSUME Enforced' PROVE FreshIsRegistered'
    BY <1>1, <1>2, <1>3, <1>8
       DEF Strong, FreshIsRegistered, Enforced, memory, RunOf, Approaching, Building
<1>9. ASSUME Enforced' PROVE DrainedIsIdle'
    BY <1>2, <1>9 DEF Strong, DrainedIsIdle, Enforced, Registered, memory
<1> QED
    BY <1>4, <1>5, <1>6, <1>7, <1>8, <1>9 DEF Strong


-----------------------------------------------------------------------------
(* Calls that end.                                                         *)

\* The call c has ended; of the others only those that joined have changed.
Ended(c) ==
    /\ call' \in [Calls -> Pending \union {Idle}]
    /\ call'[c] = Idle
    /\ \A d \in Calls \ {c} :
          \/ call'[d] = call[d]
          \/ At(d, "joined") /\ call'[d] = Idle
          \/ /\ At(d, "joined") /\ call'[d] # Idle
             /\ call'[d].owner = FALSE /\ call'[d].run = RunOf(c)
             /\ call'[d].pc = IF RunOf(c) \in scratch' THEN "revalidate" ELSE "gate"

LEMMA ThrowsEnds ==
    ASSUME TypeOK, NEW c \in Calls, Throws(c)
    PROVE  Ended(c)
<1>1. call' = [d \in Calls |-> IF d = c \/ d \in JoinedTo(c) THEN Idle ELSE call[d]]
    BY DEF Throws
<1> QED
    BY <1>1 DEF Ended, TypeOK, JoinedTo

LEMMA ReturnsEnds ==
    ASSUME TypeOK, NEW c \in Calls, call[c] # Idle, Returns(c)
    PROVE  Ended(c)
<1> DEFINE k == Entry(RunOf(c), FALSE, RunOf(c) \in scratch')
           refused == RunOf(c) \notin scratch' /\ admissionClosed
<1>1. call' = [d \in Calls |-> IF d = c THEN Idle
                ELSE IF d \in JoinedTo(c) THEN (IF refused THEN Idle ELSE k) ELSE call[d]]
    BY DEF Returns
<1>2. RunOf(c) \in Runs
    BY CallTypes
<1>3. /\ k \in Pending /\ k # Idle /\ k.owner = FALSE /\ k.run = RunOf(c)
      /\ k.pc = IF RunOf(c) \in scratch' THEN "revalidate" ELSE "gate"
    BY <1>2 DEF Entry, Pending, Places, Idle
<1> HIDE DEF k
<1> QED
    BY <1>1, <1>3 DEF Ended, TypeOK, JoinedTo

LEMMA EndedOwners ==
    ASSUME Strong, NEW c \in Calls, call[c] # Idle, Ended(c), Unregisters(c)
    PROVE  RegisteredOwner' /\ JoinedOwnsNothing' /\ promptBuilds' \in [Runs -> Calls \union {NoCall}]
<1>1. \A q \in Runs : promptBuilds'[q] = promptBuilds[q] \/ promptBuilds'[q] = NoCall
    BY DEF Unregisters, Strong, TypeOK
<1>2. JoinedOwnsNothing'
    BY IdleType DEF Strong, Ended, JoinedOwnsNothing, At
<1>3. promptBuilds' \in [Runs -> Calls \union {NoCall}]
    BY DEF Unregisters, Strong, TypeOK
<1>4. SUFFICES ASSUME NEW q \in Runs, promptBuilds'[q] # NoCall
               PROVE  /\ call'[promptBuilds'[q]] # Idle
                      /\ call'[promptBuilds'[q]].owner /\ RunOf(promptBuilds[q])' = q
                      /\ \A d \in CallsOf(q)' : call'[d].owner => d = promptBuilds'[q]
    BY <1>2, <1>3 DEF RegisteredOwner
<1> DEFINE o == promptBuilds[q]
<1>5. o # NoCall /\ o \in Calls /\ promptBuilds'[q] = o
    BY <1>1, <1>4 DEF Strong, TypeOK
<1>6. /\ call[o] # Idle /\ call[o].owner /\ call[o].run = q
      /\ \A d \in CallsOf(q) : call[d].owner => d = o
    BY <1>5 DEF Strong, RegisteredOwner, RunOf
<1>7. ~At(o, "joined")
    BY <1>5, <1>6 DEF Strong, JoinedOwnsNothing
<1>8. o # c
    BY <1>4, <1>5, <1>6 DEF Unregisters, Strong, TypeOK, RunOf
<1>9. call'[o] = call[o]
    BY <1>5, <1>7, <1>8 DEF Ended
<1>10. \A d \in CallsOf(q)' : call'[d].owner => d \in CallsOf(q) /\ call'[d] = call[d]
    BY DEF Ended, CallsOf, RunOf
<1> QED
    BY <1>5, <1>6, <1>9, <1>10 DEF RunOf


(* In enforce, an end may bind or refuse the Run of the call: a fresh      *)
(* owner of the same Run would be that call, and any other call of the Run *)
(* found it bound.                                                         *)
LEMMA EndedCalls ==
    ASSUME Strong, Enforced, NEW c \in Calls, call[c] # Idle, ~At(c, "joined"),
           Ended(c), Unregisters(c),
           scratch' \in {scratch, scratch \union {RunOf(c)}},
           scratch' # scratch => Building(c),
           invalidatedRuns' = invalidatedRuns,
           rejectedRuns' \in {rejectedRuns, rejectedRuns \union {RunOf(c)}},
           \/ \A d \in Calls : call'[d] \in {call[d], Idle}
           \/ RunOf(c) \in scratch' \union invalidatedRuns
    PROVE  UnownedWasBound' /\ FreshIsRegistered'
<1>1. UnownedWasBound /\ FreshIsRegistered
    BY DEF Strong
<1>2. UnownedWasBound'
  <2> SUFFICES ASSUME NEW d \in Calls, call'[d] # Idle, call'[d].pc # "joined"
               PROVE  /\ ~call'[d].owner \/ call'[d].pc = "revalidate" =>
                            call'[d].run \in scratch' \union invalidatedRuns
                      /\ ~call'[d].owner => call'[d].pc # "building"
                      /\ ~call'[d].owner /\ call'[d].pc \in {"gate", "checks"} =>
                            call'[d].run \in invalidatedRuns
    BY DEF UnownedWasBound, At, RunOf, Building, Approaching
  <2>1. d # c
    BY DEF Ended
  <2>2. CASE call'[d] = call[d]
    BY <1>1, <2>2 DEF UnownedWasBound, At, RunOf, Building, Approaching
  <2>3. CASE call'[d] # call[d]
    BY <2>1, <2>3 DEF Ended
  <2> QED
    BY <2>2, <2>3
<1>3. FreshIsRegistered'
  <2> SUFFICES ASSUME NEW d \in Calls, call'[d] # Idle, call'[d].owner, ~call'[d].stale,
                      call'[d].pc \in {"gate", "checks", "building"}
               PROVE  /\ promptBuilds'[call'[d].run] = d /\ call'[d].run \notin scratch'
                      /\ call'[d].run \notin rejectedRuns' \ invalidatedRuns
                      /\ call'[d].pc = "building" => call'[d].run \notin rejectedRuns' \union invalidatedRuns
    BY DEF FreshIsRegistered, RunOf, Building, Approaching
  <2>1. d # c /\ call'[d] = call[d]
    BY DEF Ended
  <2> DEFINE r == call[d].run
  <2>2. /\ promptBuilds[r] = d /\ r \notin scratch
        /\ r \notin rejectedRuns \ invalidatedRuns
        /\ call[d].pc = "building" => r \notin rejectedRuns \union invalidatedRuns
    BY <1>1, <2>1 DEF FreshIsRegistered, RunOf, Building, Approaching
  <2>3. r \in Runs /\ d # NoCall
    BY <2>1, CallTypes, CallAssumption DEF Strong, RunOf
  <2>4. \A e \in CallsOf(r) : call[e].owner => e = d
    BY <2>2, <2>3 DEF Strong, RegisteredOwner
  <2>5. CASE RunOf(c) = r
    <3>1. ~call[c].owner
        BY <2>1, <2>4, <2>5 DEF CallsOf
    <3>2. r \in invalidatedRuns /\ ~Building(c)
        BY <1>1, <2>2, <2>5, <3>1 DEF UnownedWasBound
    <3> QED
        BY <2>1, <2>2, <3>1, <3>2 DEF Unregisters
  <2>6. CASE RunOf(c) # r
    BY <2>1, <2>2, <2>3, <2>6 DEF Unregisters, Strong, TypeOK
  <2> QED
    BY <2>5, <2>6
<1> QED
    BY <1>2, <1>3

LEMMA RefusedStep ==
    ASSUME Strong, NEW c \in Calls, Refused(c)
    PROVE  Strong'
<1>1. call[c] # Idle /\ ~At(c, "joined") /\ call[c].pc \in Places /\ RunOf(c) \in Runs
    BY CallTypes DEF Refused, Strong, Places, At
<1>2. UNCHANGED <<mode, scratch, injectedPackets, invalidatedRuns, barrier>>
    BY DEF Refused, Refuse
<1>3. CASE Enforced /\ rejectedRuns' = rejectedRuns \union {RunOf(c)} /\ Throws(c)
  <2>1. Ended(c) /\ Unregisters(c) /\ \A d \in Calls : call'[d] \in {call[d], Idle}
    BY <1>3, ThrowsEnds DEF Throws, Strong
  <2>2. TypeOK' /\ RegisteredOwner' /\ JoinedOwnsNothing'
    BY <1>1, <1>2, <1>3, <2>1, EndedOwners DEF Ended, Strong, TypeOK, barrier
  <2>3. UnownedWasBound' /\ FreshIsRegistered'
    BY <1>1, <1>2, <1>3, <2>1, EndedCalls
  <2>4. DrainedIsIdle'
    BY <1>2, <1>3, <2>1 DEF Strong, TypeOK, DrainedIsIdle, Registered, Unregisters, barrier
  <2> QED
    BY <1>2, <2>2, <2>3, <2>4 DEF Strong, ClosedDuringSync, barrier
<1>4. CASE ~Enforced /\ Returns(c)
  <2>1. Ended(c) /\ Unregisters(c)
    BY <1>1, <1>4, ReturnsEnds DEF Returns, Strong
  <2>2. rejectedRuns' \subseteq Runs
    BY <1>1, <1>4 DEF Returns, Strong, TypeOK
  <2>3. TypeOK' /\ RegisteredOwner' /\ JoinedOwnsNothing'
    BY <1>1, <1>2, <2>1, <2>2, EndedOwners DEF Ended, Strong, TypeOK, barrier
  <2> QED
    BY <1>2, <1>4, <2>3 DEF Strong, ClosedDuringSync, Enforced, barrier
<1> QED
    BY <1>3, <1>4 DEF Refused, Refuse


(* Who binds in enforce is registered: no drain has overlooked it.         *)
LEMMA BinderIsRegistered ==
    ASSUME Strong, Enforced, NEW c \in Calls, Binds(c)
    PROVE  /\ promptBuilds[RunOf(c)] = c /\ RunOf(c) \in Registered
           /\ RunOf(c) \notin scratch \union rejectedRuns \union invalidatedRuns
<1>1. /\ call[c] # Idle /\ ~At(c, "joined") /\ Building(c) /\ ~call[c].stale
      /\ RunOf(c) \in Runs
    BY CallTypes DEF Binds, Strong, Places, At, Building
<1>2. call[c].owner
    BY <1>1 DEF Strong, UnownedWasBound
<1> QED
    BY <1>1, <1>2, CallAssumption DEF Strong, FreshIsRegistered, Registered

LEMMA BindsStep ==
    ASSUME Strong, NEW c \in Calls, Binds(c)
    PROVE  Strong'
<1>1. /\ call[c] # Idle /\ ~At(c, "joined") /\ call[c].pc \in Places /\ RunOf(c) \in Runs
      /\ Building(c)
    BY CallTypes DEF Binds, Strong, Places, At, Building
<1>2. /\ scratch' = scratch \union {RunOf(c)}
      /\ injectedPackets' \in {injectedPackets, injectedPackets \union {RunOf(c)}}
      /\ Returns(c)
      /\ UNCHANGED <<mode, invalidatedRuns, barrier>>
    BY DEF Binds
<1>3. Ended(c) /\ Unregisters(c) /\ rejectedRuns' = rejectedRuns
    BY <1>1, <1>2, ReturnsEnds DEF Returns, Strong
<1>4. TypeOK' /\ RegisteredOwner' /\ JoinedOwnsNothing'
    BY <1>1, <1>2, <1>3, EndedOwners DEF Ended, Strong, TypeOK, barrier
<1>5. ASSUME Enforced' PROVE UnownedWasBound' /\ FreshIsRegistered'
    BY <1>1, <1>2, <1>3, <1>5, EndedCalls DEF Enforced
<1>6. ASSUME Enforced' PROVE DrainedIsIdle'
    BY <1>2, <1>6, BinderIsRegistered DEF Enforced, Strong, DrainedIsIdle, barrier
<1> QED
    BY <1>2, <1>4, <1>5, <1>6 DEF Strong, ClosedDuringSync, barrier

LEMMA RevalidatesStep ==
    ASSUME Strong, NEW c \in Calls, Revalidates(c)
    PROVE  Strong'
<1>1. /\ call[c] # Idle /\ ~At(c, "joined") /\ call[c].pc \in Places /\ RunOf(c) \in Runs
      /\ At(c, "revalidate")
    BY CallTypes DEF Revalidates, Strong, Places, At
<1>2. Returns(c) /\ UNCHANGED <<mode, scratch, injectedPackets, invalidatedRuns, barrier>>
    BY DEF Revalidates
<1>3. /\ Ended(c) /\ Unregisters(c)
      /\ rejectedRuns' \in {rejectedRuns, rejectedRuns \union {RunOf(c)}}
    BY <1>1, <1>2, ReturnsEnds DEF Returns, Strong
<1>4. TypeOK' /\ RegisteredOwner' /\ JoinedOwnsNothing'
    BY <1>1, <1>2, <1>3, EndedOwners DEF Ended, Strong, TypeOK, barrier
<1>5. ASSUME Enforced' PROVE UnownedWasBound' /\ FreshIsRegistered'
  <2>1. RunOf(c) \in scratch' \union invalidatedRuns
    BY <1>1, <1>2, <1>5 DEF Strong, UnownedWasBound, Enforced
  <2> QED
    BY <1>1, <1>2, <1>3, <1>5, <2>1, EndedCalls DEF Enforced
<1>6. ASSUME Enforced' PROVE DrainedIsIdle'
    BY <1>2, <1>3, <1>6
       DEF Strong, TypeOK, DrainedIsIdle, Enforced, Registered, Unregisters, barrier
<1> QED
    BY <1>2, <1>4, <1>5, <1>6 DEF Strong, ClosedDuringSync, barrier

LEMMA QuarantinesStep ==
    ASSUME Strong, NEW c \in Calls, Quarantines(c)
    PROVE  Strong'
<1>1. call[c] # Idle /\ ~At(c, "joined") /\ call[c].pc \in Places /\ RunOf(c) \in Runs
    BY CallTypes DEF Quarantines, Strong, Places, At
<1>2. /\ Throws(c) /\ rejectedRuns' = rejectedRuns \union {RunOf(c)}
      /\ gate' \in {gate, TRUE}
      /\ UNCHANGED <<mode, scratch, injectedPackets, invalidatedRuns, admissionClosed, phase>>
    BY DEF Quarantines
<1>3. Ended(c) /\ Unregisters(c) /\ \A d \in Calls : call'[d] \in {call[d], Idle}
    BY <1>2, ThrowsEnds DEF Throws, Strong
<1>4. TypeOK' /\ RegisteredOwner' /\ JoinedOwnsNothing'
    BY <1>1, <1>2, <1>3, EndedOwners DEF Ended, Strong, TypeOK
<1>5. ASSUME Enforced' PROVE UnownedWasBound' /\ FreshIsRegistered'
    BY <1>1, <1>2, <1>3, <1>5, EndedCalls DEF Enforced
<1>6. ASSUME Enforced' PROVE DrainedIsIdle'
    BY <1>2, <1>3, <1>6 DEF Strong, TypeOK, DrainedIsIdle, Enforced, Registered, Unregisters
<1> QED
    BY <1>2, <1>4, <1>5, <1>6 DEF Strong, ClosedDuringSync

-----------------------------------------------------------------------------
(* Steps that leave the calls alone, and the reset that makes them stale.  *)

LEMMA RefusedAtOnceStep ==
    ASSUME Strong, NEW r \in Runs, RefusedAtOnce(r)
    PROVE  Strong'
<1>1. /\ promptBuilds[r] = NoCall
      /\ rejectedRuns' = rejectedRuns \union {r}
      /\ UNCHANGED <<mode, call, promptBuilds, scratch, injectedPackets, invalidatedRuns, barrier>>
    BY DEF RefusedAtOnce
<1>2. TypeOK' /\ RegisteredOwner' /\ JoinedOwnsNothing' /\ ClosedDuringSync'
    BY <1>1 DEF Strong, TypeOK, RegisteredOwner, JoinedOwnsNothing, ClosedDuringSync, barrier,
        CallsOf, RunOf, At
<1>3. ASSUME Enforced' PROVE UnownedWasBound' /\ DrainedIsIdle'
    BY <1>1, <1>3 DEF Strong, UnownedWasBound, DrainedIsIdle, Enforced, Registered, barrier,
        RunOf, At, Approaching, Building
<1>4. ASSUME Enforced' PROVE FreshIsRegistered'
    BY <1>1, <1>4, CallAssumption DEF Strong, FreshIsRegistered, Enforced, RunOf, Approaching, Building
<1> QED
    BY <1>2, <1>3, <1>4 DEF Strong

LEMMA AgentEndStep ==
    ASSUME Strong, ~Overlap, NEW r \in Runs, AgentEnd(r)
    PROVE  Strong'
<1>1. /\ CallsOf(r) = {}
      /\ scratch' = scratch \ {r} /\ injectedPackets' = injectedPackets \ {r}
      /\ rejectedRuns' = rejectedRuns \ {r} /\ invalidatedRuns' = invalidatedRuns \ {r}
      /\ promptBuilds' = [promptBuilds EXCEPT ![r] = NoCall]
      /\ UNCHANGED <<mode, call, barrier>>
    BY DEF AgentEnd
<1>2. \A q \in Runs : promptBuilds'[q] = IF q = r THEN NoCall ELSE promptBuilds[q]
    BY <1>1 DEF Strong, TypeOK
<1>3. \A c \in Calls : call[c] # Idle => RunOf(c) # r /\ RunOf(c) \in Runs
    BY <1>1, CallTypes DEF CallsOf, Strong
<1>4. TypeOK' /\ JoinedOwnsNothing' /\ ClosedDuringSync'
    BY <1>1 DEF Strong, TypeOK, JoinedOwnsNothing, ClosedDuringSync, barrier, At
<1>5. RegisteredOwner'
    BY <1>1, <1>2 DEF Strong, RegisteredOwner, CallsOf, RunOf
<1>6. ASSUME Enforced' PROVE UnownedWasBound'
    BY <1>1, <1>3, <1>6 DEF Strong, UnownedWasBound, Enforced, RunOf, At, Approaching, Building
<1>7. ASSUME Enforced' PROVE FreshIsRegistered'
    BY <1>1, <1>2, <1>3, <1>7 DEF Strong, FreshIsRegistered, Enforced, RunOf, Approaching, Building
<1>8. ASSUME Enforced' PROVE DrainedIsIdle'
    BY <1>1, <1>2, <1>8 DEF Strong, DrainedIsIdle, Enforced, Registered, barrier
<1> QED
    BY <1>4, <1>5, <1>6, <1>7, <1>8 DEF Strong


LEMMA ExpiresStep ==
    ASSUME Strong, NEW r \in Runs, Expires(r)
    PROVE  Strong'
<1>1. /\ r \in scratch /\ scratch' = scratch \ {r} /\ injectedPackets' = injectedPackets \ {r}
      /\ promptBuilds' = [promptBuilds EXCEPT ![r] = NoCall]
      /\ invalidatedRuns' = invalidatedRuns \union {r}
      /\ UNCHANGED <<mode, call, rejectedRuns, barrier>>
    BY DEF Expires
<1>2. \A q \in Runs : promptBuilds'[q] = IF q = r THEN NoCall ELSE promptBuilds[q]
    BY <1>1 DEF Strong, TypeOK
<1>3. \A c \in Calls : call[c] # Idle => RunOf(c) \in Runs
    BY CallTypes DEF Strong
<1>4. TypeOK' /\ JoinedOwnsNothing' /\ ClosedDuringSync'
    BY <1>1 DEF Strong, TypeOK, JoinedOwnsNothing, ClosedDuringSync, barrier, At
<1>5. RegisteredOwner'
    BY <1>1, <1>2 DEF Strong, RegisteredOwner, CallsOf, RunOf
<1>6. ASSUME Enforced' PROVE UnownedWasBound'
    BY <1>1, <1>3, <1>6 DEF Strong, UnownedWasBound, Enforced, RunOf, At, Approaching, Building
<1>7. ASSUME Enforced' PROVE FreshIsRegistered'
    BY <1>1, <1>2, <1>3, <1>7 DEF Strong, FreshIsRegistered, Enforced, RunOf, Approaching, Building
<1>8. ASSUME Enforced' PROVE DrainedIsIdle'
    BY <1>1, <1>2, <1>8 DEF Strong, DrainedIsIdle, Enforced, Registered, barrier
<1> QED
    BY <1>4, <1>5, <1>6, <1>7, <1>8 DEF Strong

LEMMA ClearLifecycleStep ==
    ASSUME Strong, ClearLifecycle
    PROVE  Strong'
<1>1. /\ call' = [c \in Calls |-> IF call[c] = Idle \/ At(c, "joined") THEN call[c]
                                  ELSE [call[c] EXCEPT !.stale = TRUE]]
      /\ promptBuilds' = [r \in Runs |-> NoCall]
      /\ scratch' = {} /\ injectedPackets' = {} /\ rejectedRuns' = {}
      /\ invalidatedRuns' = invalidatedRuns \union rejectedRuns \union scratch
      /\ UNCHANGED <<mode, barrier>>
    BY DEF ClearLifecycle
<1>2. \A c \in Calls : \/ call'[c] = call[c] /\ (call[c] = Idle \/ At(c, "joined"))
                       \/ /\ call'[c] = [call[c] EXCEPT !.stale = TRUE]
                          /\ call[c] \in Pending /\ ~At(c, "joined")
    BY <1>1, CallTypes DEF Strong
<1>3. \A c \in Calls : \/ call'[c] = call[c] /\ (call[c] = Idle \/ At(c, "joined"))
                       \/ /\ call'[c] \in Pending /\ call'[c].stale
                          /\ call'[c].pc = call[c].pc /\ call'[c].run = call[c].run
                          /\ call'[c].owner = call[c].owner
                          /\ call[c] # Idle /\ ~At(c, "joined")
    BY <1>2, CallTypes DEF Pending, Strong
<1>4. call' \in [Calls -> Pending \union {Idle}]
    BY <1>1, <1>3 DEF Strong, TypeOK
<1>5. TypeOK' /\ RegisteredOwner' /\ ClosedDuringSync'
    BY <1>1, <1>4 DEF Strong, TypeOK, RegisteredOwner, ClosedDuringSync, barrier
<1>6. JoinedOwnsNothing'
    BY <1>3 DEF Strong, JoinedOwnsNothing, At
<1>7. ASSUME Enforced' PROVE UnownedWasBound'
    BY <1>1, <1>3, <1>7 DEF Strong, UnownedWasBound, Enforced, RunOf, At, Approaching, Building
<1>8. FreshIsRegistered'
    BY <1>3, IdleType DEF Strong, JoinedOwnsNothing, FreshIsRegistered, At, Approaching, Building
<1>9. DrainedIsIdle'
    BY <1>1 DEF DrainedIsIdle, Registered
<1> QED
    BY <1>5, <1>6, <1>7, <1>8, <1>9 DEF Strong

LEMMA SyncStep ==
    ASSUME Strong, CloseAdmission \/ Drains \/ DrainTimesOut \/ OpenAdmission
    PROVE  Strong'
<1>1. /\ UNCHANGED <<mode, call, memory>>
      /\ phase' \in {"open", "draining", "drained", "timed out"}
      /\ admissionClosed' \in BOOLEAN /\ gate' \in BOOLEAN
      /\ phase' # "open" => admissionClosed'
      /\ phase' = "drained" => scratch = {} /\ Registered = {}
    BY DEF Strong, TypeOK, ClosedDuringSync, Busy, CloseAdmission, Drains, DrainTimesOut, OpenAdmission
<1>2. TypeOK' /\ RegisteredOwner' /\ JoinedOwnsNothing' /\ ClosedDuringSync'
    BY <1>1 DEF Strong, TypeOK, RegisteredOwner, JoinedOwnsNothing, ClosedDuringSync, memory,
        CallsOf, RunOf, At
<1>3. ASSUME Enforced' PROVE UnownedWasBound' /\ FreshIsRegistered' /\ DrainedIsIdle'
    BY <1>1, <1>3 DEF Strong, UnownedWasBound, FreshIsRegistered, DrainedIsIdle, Enforced,
        Registered, memory, RunOf, At, Approaching, Building
<1> QED
    BY <1>2, <1>3 DEF Strong

-----------------------------------------------------------------------------
LEMMA StepStrong == ~Overlap /\ Strong /\ [Next]_vars => Strong'
<1> SUFFICES ASSUME ~Overlap, Strong, [Next]_vars PROVE Strong'
    OBVIOUS
<1>1. CASE \E c \in Calls, r \in Runs : Joins(c, r) \/ Enters(c, r)
    BY <1>1, JoinsStep, EntersStep
<1>2. CASE \E r \in Runs : RefusedAtOnce(r) \/ AgentEnd(r) \/ Expires(r)
    BY <1>2, RefusedAtOnceStep, AgentEndStep, ExpiresStep
<1>3. CASE \E c \in Calls : Proceeds(c)
    BY <1>3, GoesStep, RefusedStep, BindsStep, RevalidatesStep, DomainFailsStep, QuarantinesStep
       DEF Proceeds
<1>4. CASE ClearLifecycle \/ CloseAdmission \/ Drains \/ DrainTimesOut \/ OpenAdmission
    BY <1>4, ClearLifecycleStep, SyncStep
<1>5. CASE UNCHANGED vars
  <2>1. UNCHANGED <<mode, call, memory, barrier>>
    BY <1>5 DEF vars
  <2>2. TypeOK' /\ RegisteredOwner' /\ JoinedOwnsNothing' /\ ClosedDuringSync'
    BY <2>1 DEF Strong, TypeOK, RegisteredOwner, JoinedOwnsNothing, ClosedDuringSync, memory,
        barrier, CallsOf, RunOf, At
  <2>3. ASSUME Enforced' PROVE UnownedWasBound' /\ FreshIsRegistered' /\ DrainedIsIdle'
    BY <2>1, <2>3 DEF Strong, UnownedWasBound, FreshIsRegistered, DrainedIsIdle, Enforced,
        Registered, memory, barrier, RunOf, At, Approaching, Building
  <2> QED
    BY <2>2, <2>3 DEF Strong
<1> QED
    BY <1>1, <1>2, <1>3, <1>4, <1>5 DEF Next

LEMMA AlwaysStrong == ASSUME ~Overlap PROVE Spec => []Strong
<1>1. Strong /\ [Next]_vars => Strong'
    BY StepStrong
<1> QED
    BY <1>1, InitStrong, PTL DEF Spec

(* Hooks, registrations and memories of every Run are well formed for any  *)
(* number of Runs, pending hooks and any limit (runtime.ts:347-381).       *)
THEOREM AdmissionTypes == ASSUME ~Overlap PROVE Spec => []TypeOK
<1>1. Strong => TypeOK
    BY DEF Strong
<1> QED
    BY <1>1, AlwaysStrong, PTL

(* For every limit and every number of concurrent hooks, a drain that has  *)
(* counted no scratch and no registered build has overlooked none: no Run  *)
(* has a binding until admission opens (drain, runtime.ts:828-839).        *)
THEOREM Drained == ASSUME ~Overlap PROVE Spec => []DrainedStaysDrained
<1>1. Strong => DrainedStaysDrained
    BY DEF Strong, DrainedIsIdle, DrainedStaysDrained
<1> QED
    BY <1>1, AlwaysStrong, PTL

(* For every limit and every number of concurrent hooks, a Run that was    *)
(* refused or has lost its binding gets none before its agent_end          *)
(* (rejectedRuns and invalidatedRuns, runtime.ts:508, 636).                *)
THEOREM Refusals == ASSUME ~Overlap PROVE Spec => RefusedIsFinal
<1>1. ASSUME Strong, [Next]_vars, Enforced
      PROVE  scratch' \ scratch \subseteq Runs \ (rejectedRuns \union invalidatedRuns)
  <2>1. CASE \E c \in Calls : Binds(c)
    <3>1. PICK c \in Calls : Binds(c)
        BY <2>1
    <3>2. scratch' = scratch \union {RunOf(c)} /\ RunOf(c) \in Runs
        BY <1>1, <3>1, BinderIsRegistered DEF Binds, Registered
    <3> QED
        BY <1>1, <3>1, <3>2, BinderIsRegistered
  <2>2. CASE scratch' \subseteq scratch
    BY <2>2
  <2>3. (\E c \in Calls : Binds(c)) \/ scratch' \subseteq scratch
    BY <1>1 DEF Next, vars, memory, barrier, Joins, Enters, RefusedAtOnce, AgentEnd, Expires,
        Proceeds, LoadsGate, PassesChecks, Goes, Refused, Refuse, Revalidates, DomainFails,
        Quarantines, ClearLifecycle, CloseAdmission, Drains, DrainTimesOut, OpenAdmission
  <2> QED
    BY <2>1, <2>2, <2>3
<1>2. Strong /\ [Next]_vars =>
        [Enforced => scratch' \ scratch \subseteq Runs \ (rejectedRuns \union invalidatedRuns)]_vars
    BY <1>1
<1> QED
    BY <1>2, AlwaysStrong, PTL DEF Spec, RefusedIsFinal

-----------------------------------------------------------------------------
(* Only a call that passes the checks adds to what is bound or under way.  *)

Taken == scratch \union Underway

\* Every build that goes on after a step was going on before it.
BuildsGoOn ==
    \A d \in Calls : Fresh(d)' => call[d] # Idle /\ Fresh(d) /\ RunOf(d)' = RunOf(d)

LEMMA EndedGoOn == ASSUME Strong, NEW c \in Calls, Ended(c) PROVE BuildsGoOn
BY IdleType DEF BuildsGoOn, Ended, Fresh, Building, RunOf

LEMMA MovedGoOn ==
    ASSUME Strong, NEW c \in Calls, call[c] # Idle, NEW place \in Places \ {"building"},
           call' = [call EXCEPT ![c].pc = place]
    PROVE  BuildsGoOn
<1>1. call'[c].pc = place /\ \A d \in Calls \ {c} : call'[d] = call[d]
    BY Moved DEF Strong
<1> QED
    BY <1>1, IdleType DEF BuildsGoOn, Fresh, Building, RunOf

LEMMA TakenKept ==
    ASSUME BuildsGoOn, scratch' \subseteq Taken
    PROVE  Taken' \subseteq Taken
<1>1. ASSUME NEW r \in Underway' PROVE r \in Underway
  <2>1. PICK d \in CallsOf(r)' : Fresh(d)'
      BY <1>1 DEF Underway, Fresh, Building, At
  <2>2. d \in Calls /\ call[d] # Idle /\ Fresh(d) /\ RunOf(d) = r /\ r \in Runs
      BY <1>1, <2>1 DEF BuildsGoOn, CallsOf, Underway
  <2> QED
      BY <2>2 DEF Underway, CallsOf, Fresh, Building, At
<1> QED
    BY <1>1 DEF Taken

LEMMA CallTaken ==
    ASSUME Strong, NEW c \in Calls, Proceeds(c), ~PassesChecks(c)
    PROVE  Taken' \subseteq Taken
<1>1. call[c] # Idle
    BY IdleType DEF Proceeds, LoadsGate, PassesChecks, Refused, Binds, Revalidates,
        DomainFails, Quarantines, At
<1>2. CASE LoadsGate(c)
  <2>1. call' = [call EXCEPT ![c].pc = "checks"] /\ scratch' = scratch
      BY <1>2 DEF LoadsGate, Goes, memory
  <2> QED
      BY <1>1, <2>1, MovedGoOn, TakenKept DEF Places, Taken
<1>3. CASE DomainFails(c)
  <2>1. call' = [call EXCEPT ![c].pc = "quarantine"] /\ scratch' = scratch
      BY <1>3 DEF DomainFails, memory
  <2> QED
      BY <1>1, <2>1, MovedGoOn, TakenKept DEF Places, Taken
<1>4. CASE Refused(c)
  <2>1. (Throws(c) \/ Returns(c)) /\ scratch' = scratch
      BY <1>4 DEF Refused, Refuse
  <2> QED
      BY <1>1, <2>1, ThrowsEnds, ReturnsEnds, EndedGoOn, TakenKept DEF Strong, Taken
<1>5. CASE Quarantines(c)
  <2>1. Throws(c) /\ scratch' = scratch
      BY <1>5 DEF Quarantines
  <2> QED
      BY <2>1, ThrowsEnds, EndedGoOn, TakenKept DEF Strong, Taken
<1>6. CASE Revalidates(c)
  <2>1. Returns(c) /\ scratch' = scratch
      BY <1>6 DEF Revalidates
  <2> QED
      BY <1>1, <2>1, ReturnsEnds, EndedGoOn, TakenKept DEF Strong, Taken
<1>7. CASE Binds(c)
  <2>1. Returns(c) /\ scratch' = scratch \union {RunOf(c)} /\ Fresh(c)
      BY <1>7 DEF Binds, Fresh, Building, At
  <2>2. RunOf(c) \in Runs
      BY <1>1, CallTypes DEF Strong
  <2>3. RunOf(c) \in Underway
      BY <1>1, <2>1, <2>2 DEF Underway, CallsOf, Fresh, Building, At
  <2> QED
      BY <1>1, <2>1, <2>3, ReturnsEnds, EndedGoOn, TakenKept DEF Strong, Taken
<1> QED
    BY <1>2, <1>3, <1>4, <1>5, <1>6, <1>7 DEF Proceeds

LEMMA OtherTaken ==
    ASSUME Strong, [Next]_vars, \A c \in Calls : ~Proceeds(c)
    PROVE  Taken' \subseteq Taken
<1>1. CASE \E c \in Calls, r \in Runs : Joins(c, r) \/ Enters(c, r)
  <2>1. PICK c \in Calls, r \in Runs : Joins(c, r) \/ Enters(c, r)
      BY <1>1
  <2>2. /\ call'[c].pc # "building" /\ scratch' = scratch
        /\ \A d \in Calls \ {c} : call'[d] = call[d]
    <3>1. ASSUME NEW k, call' = [call EXCEPT ![c] = k], k.pc # "building"
          PROVE  call'[c].pc # "building" /\ \A d \in Calls \ {c} : call'[d] = call[d]
        BY <3>1 DEF Strong, TypeOK
    <3>2. CASE Joins(c, r)
      <4> DEFINE k == [Entry(r, FALSE, FALSE) EXCEPT !.pc = "joined", !.on = promptBuilds[r]]
      <4>1. k.pc = "joined"
          BY DEF Entry
      <4>2. call' = [call EXCEPT ![c] = k] /\ scratch' = scratch
          BY <3>2 DEF Joins, memory
      <4> HIDE DEF k
      <4> QED
          BY <3>1, <4>1, <4>2
    <3>3. CASE Enters(c, r)
      <4> DEFINE k == Entry(r, TRUE, r \in scratch)
      <4>1. k.pc # "building"
          BY DEF Entry
      <4>2. call' = [call EXCEPT ![c] = k] /\ scratch' = scratch
          BY <3>3 DEF Enters
      <4> HIDE DEF k
      <4> QED
          BY <3>1, <4>1, <4>2
    <3> QED
        BY <2>1, <3>2, <3>3
  <2>3. BuildsGoOn
      BY <2>2, IdleType DEF BuildsGoOn, Fresh, Building, RunOf
  <2> QED
      BY <2>2, <2>3, TakenKept DEF Taken
<1>2. CASE ClearLifecycle
  <2>1. /\ scratch' = {}
        /\ \A d \in Calls : \/ call[d] = Idle \/ At(d, "joined")
                            \/ call'[d].stale
      BY <1>2, CallTypes DEF ClearLifecycle, Strong, TypeOK, Pending
  <2>2. \A d \in Calls : call[d] = Idle \/ At(d, "joined") => call'[d] = call[d]
      BY <1>2 DEF ClearLifecycle
  <2>3. BuildsGoOn
      BY <2>1, <2>2, IdleType DEF BuildsGoOn, Fresh, Building, RunOf, At
  <2> QED
      BY <2>1, <2>3, TakenKept
<1>3. CASE call' = call /\ scratch' \subseteq scratch
  <2>1. BuildsGoOn
      BY <1>3, IdleType DEF BuildsGoOn, Fresh, Building, RunOf
  <2> QED
      BY <1>3, <2>1, TakenKept DEF Taken
<1> QED
    BY <1>1, <1>2, <1>3 DEF Next, vars, memory, barrier, RefusedAtOnce, AgentEnd, Expires,
        CloseAdmission, Drains, DrainTimesOut, OpenAdmission

LEMMA FiniteSizes ==
    ASSUME NEW S \in SUBSET Runs
    PROVE  /\ IsFiniteSet(S) /\ Cardinality(S) \in Nat
           /\ \A T \in SUBSET S : Cardinality(T) <= Cardinality(S)
BY FS_Subset, FS_CardinalityType, LimitAssumption

\* A call that passes finds room for every Run that is registered.
LEMMA ChecksTaken ==
    ASSUME Strong, Strong', Enforced, Enforced', NEW c \in Calls, PassesChecks(c)
    PROVE  Cardinality(Taken') < MaxActive
<1>1. UNCHANGED <<scratch, promptBuilds>> /\ ~Full
    BY DEF PassesChecks, Goes, memory
<1>2. scratch \in SUBSET Runs /\ Registered \in SUBSET Runs
    BY DEF Strong, TypeOK, Registered
<1>3. Underway' \subseteq Registered
  <2> SUFFICES ASSUME NEW r \in Underway' PROVE r \in Registered
      OBVIOUS
  <2>1. PICK d \in CallsOf(r)' : Fresh(d)'
      BY DEF Underway, Fresh, Building, At
  <2>2. d \in Calls /\ call'[d] # Idle /\ RunOf(d)' = r /\ r \in Runs
      BY <2>1 DEF CallsOf, Underway
  <2>3. ~At(d, "joined")'
      BY <2>1 DEF Fresh, Building, At
  <2>4. call'[d].owner
      BY <2>1, <2>2, <2>3 DEF Strong, UnownedWasBound, Fresh
  <2>5. promptBuilds'[r] = d
      BY <2>1, <2>2, <2>4 DEF Strong, FreshIsRegistered, Fresh
  <2> QED
      BY <1>1, <2>2, <2>5, CallAssumption DEF Registered
<1>4. Taken' \subseteq scratch \union Registered
    BY <1>1, <1>3 DEF Taken
<1>5. Cardinality(scratch \union Registered) <= Cardinality(scratch) + Cardinality(Registered)
  <2>1. /\ IsFiniteSet(scratch) /\ IsFiniteSet(Registered)
        /\ Cardinality(scratch \intersect Registered) \in Nat
        /\ Cardinality(scratch) \in Nat /\ Cardinality(Registered) \in Nat
      BY <1>2, FiniteSizes
  <2>2. Cardinality(scratch \union Registered) =
            Cardinality(scratch) + Cardinality(Registered) - Cardinality(scratch \intersect Registered)
      BY <2>1, FS_Union, Zenon
  <2> QED
      BY <2>1, <2>2
<1>6. /\ Cardinality(Taken') <= Cardinality(scratch \union Registered)
      /\ Cardinality(scratch) \in Nat /\ Cardinality(Registered) \in Nat
      /\ Cardinality(scratch \union Registered) \in Nat /\ Cardinality(Taken') \in Nat
    BY <1>2, <1>4, FiniteSizes
<1> QED
    BY <1>1, <1>5, <1>6, LimitAssumption DEF Full

LEMMA ModeKept == ASSUME [Next]_vars PROVE mode' = mode
BY DEF Next, vars, memory, barrier, Joins, Enters, RefusedAtOnce, AgentEnd, Expires,
    Proceeds, LoadsGate, PassesChecks, Goes, Refused, Refuse, Binds, Revalidates,
    DomainFails, Quarantines, ClearLifecycle, CloseAdmission, Drains, DrainTimesOut,
    OpenAdmission

(* For every limit and every number of concurrent hooks, the Runs that are *)
(* bound and those whose build has passed the check stay together below    *)
(* the limit while compilation and router are awaited (runtime.ts:511).    *)
THEOREM Capacity == ASSUME ~Overlap PROVE Spec => []CapacityKept
<1>1. Init => CapacityKept
  <2> SUFFICES ASSUME Init PROVE Cardinality(scratch \union Underway) < MaxActive
      BY DEF CapacityKept
  <2>1. scratch \union Underway = {}
      BY DEF Init, Underway, CallsOf
  <2> QED
      BY <2>1, FS_EmptySet, LimitAssumption
<1>2. Strong /\ Strong' /\ CapacityKept /\ [Next]_vars => CapacityKept'
  <2> SUFFICES ASSUME Strong, Strong', CapacityKept, [Next]_vars, Enforced'
               PROVE  Cardinality(Taken') < MaxActive
      BY DEF CapacityKept, Taken
  <2>1. Enforced
      BY ModeKept DEF Enforced
  <2>2. CASE \E c \in Calls : PassesChecks(c)
      BY <2>1, <2>2, ChecksTaken
  <2>3. CASE \A c \in Calls : ~PassesChecks(c)
    <3>1. Taken' \subseteq Taken
        BY <2>3, CallTaken, OtherTaken
    <3>2. Taken \in SUBSET Runs
        BY DEF Taken, Underway, Strong, TypeOK
    <3>3. /\ Cardinality(Taken') <= Cardinality(Taken)
          /\ Cardinality(Taken) \in Nat /\ Cardinality(Taken') \in Nat
        BY <3>1, <3>2, FiniteSizes
    <3> QED
        BY <2>1, <3>3, LimitAssumption DEF CapacityKept, Taken
  <2> QED
      BY <2>2, <2>3
<1> QED
    BY <1>1, <1>2, AlwaysStrong, PTL DEF Spec

===============================================================================
