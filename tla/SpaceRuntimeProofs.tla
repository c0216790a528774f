-------------------------- MODULE SpaceRuntimeProofs --------------------------
(***************************************************************************)
(* Proofs about the life of a space, for any operators, specs and bounds:  *)
(* types, that its resources are created once at most, by one operator,    *)
(* that its phase moves forward only, and that an Active space has all it  *)
(* was asked for.                                                          *)
(***************************************************************************)
EXTENDS SpaceRuntime, TLAPS

(* A runtime r is right about the resource: its copy is not newer, the     *)
(* phase it means to record follows from where it stands, and, if its copy *)
(* is up to date, it knows the spec and the phase that is recorded.        *)
Working == {"creating", "setup", "activating", "failing"}

Knows(r) ==
  /\ r.uid = uid
  /\ r.spec = spec
  /\ r.pc = "creating" => phase = "None"
  /\ r.pc \in {"setup", "activating"} => phase = "Creating"
  /\ r.pc = "failing" /\ phase = "Active" => "invalid" \in spec

Sound(r) ==
  /\ r.rv <= rv
  /\ r.uid <= uid
  /\ r.pc = "creating" => r.status = "Creating"
  /\ r.pc = "activating" => r.status = "Active"
  /\ r.pc = "failing" => r.status = "Failed"
  /\ r.pc \in {"setup", "activating"} => r.uid \in begun
  /\ r.pc \in Working /\ r.rv = rv /\ phase # "absent" => Knows(r)

(* What was begun left its mark on the phase.                              *)
BegunOK ==
  \A u \in begun : u <= uid /\ (u = uid /\ phase # "absent" => phase # "None")

(* The inductive invariant for the phases, with the types.                 *)
PhaseInv == BegunOK /\ \A o \in Ops : Sound(op[o])

-----------------------------------------------------------------------------
(* Types.                                                                  *)

LEMMA StepsLength == Len(Steps) = 18
BY DEF Steps

LEMMA RuntimeType ==
  ASSUME TypeOK, NEW o \in Ops
  PROVE  op[o] \in Runtime
BY DEF TypeOK

LEMMA FailedFacts ==
  ASSUME NEW r \in Runtime
  PROVE  /\ Failed(r) \in Runtime
         /\ Failed(r).pc \in {"ready", "failing"}
         /\ Failed(r).status = "Failed"
         /\ Failed(r).pc = "failing" => r.status # "Failed"
         /\ Failed(r).rv = r.rv /\ Failed(r).uid = r.uid /\ Failed(r).spec = r.spec
<1>1. CASE r.status = "Failed"
  BY <1>1 DEF Failed, Runtime, Phases
<1>2. CASE r.status # "Failed"
  BY <1>2 DEF Failed, Runtime, Phases
<1> QED
  BY <1>1, <1>2

LEMMA RecordedFacts ==
  ASSUME NEW r \in Runtime
  PROVE  /\ Recorded(r) \in Runtime
         /\ Recorded(r).uid = r.uid /\ Recorded(r).spec = r.spec
         /\ Recorded(r).status = r.status
         /\ Recorded(r).pc = IF r.pc = "creating" THEN "setup" ELSE "ready"
         /\ r.pc = "creating" => Recorded(r).at = 1
<1>1. CASE r.pc = "creating"
  <2>1. Recorded(r) = [r EXCEPT !.pc = "setup", !.at = 1]
    BY <1>1 DEF Recorded
  <2>2. 1 \in 0..Len(Steps)
    BY StepsLength
  <2> QED
    BY <1>1, <2>1, <2>2 DEF Runtime
<1>2. CASE r.pc # "creating"
  BY <1>2 DEF Recorded, Runtime
<1> QED
  BY <1>1, <1>2

LEMMA AdvancedFacts ==
  ASSUME NEW r \in Runtime, r.pc = "setup", r.at # 0
  PROVE  /\ Advanced(r) \in Runtime
         /\ Advanced(r).rv = r.rv /\ Advanced(r).uid = r.uid /\ Advanced(r).spec = r.spec
         /\ \/ /\ r.at = 18
               /\ Advanced(r).pc = "activating" /\ Advanced(r).status = "Active"
            \/ /\ r.at < 18
               /\ Advanced(r).pc = "setup" /\ Advanced(r).at = r.at + 1
<1>1. CASE r.at = 18
  BY <1>1, StepsLength DEF Advanced, Runtime, Phases
<1>2. CASE r.at # 18
  BY <1>2, StepsLength DEF Advanced, Runtime
<1> QED
  BY <1>1, <1>2

(* The copy a runtime is made of.                                          *)
Copy == [pc |-> "none", uid |-> uid, rv |-> rv, spec |-> spec, status |-> phase, at |-> 0]

LEMMA SetUpFacts ==
  ASSUME TypeOK, phase # "absent"
  PROVE  /\ SetUp(Copy) \in Runtime
         /\ SetUp(Copy).rv = rv /\ SetUp(Copy).uid = uid /\ SetUp(Copy).spec = spec
         /\ \/ /\ SetUp(Copy).pc = "creating" /\ SetUp(Copy).status = "Creating"
               /\ phase = "None"
            \/ /\ SetUp(Copy).pc = "ready" /\ SetUp(Copy).status = "Active"
               /\ phase = "Active"
            \/ /\ SetUp(Copy).pc \in {"ready", "failing"} /\ SetUp(Copy).status = "Failed"
               /\ phase = "Active" => "invalid" \in spec
<1>1. Copy \in Runtime
  BY StepsLength DEF TypeOK, Copy, Runtime, Phases
<1>2. CASE "invalid" \in spec
  BY <1>1, <1>2, FailedFacts DEF SetUp, Copy
<1>3. CASE "invalid" \notin spec /\ phase = "None"
  BY <1>1, <1>3 DEF SetUp, Copy, Runtime, Phases
<1>4. CASE "invalid" \notin spec /\ phase = "Active"
  BY <1>1, <1>4 DEF SetUp, Copy, Runtime, Phases
<1>5. CASE "invalid" \notin spec /\ phase \notin {"None", "Active"}
  BY <1>1, <1>5, FailedFacts DEF SetUp, Copy
<1> QED
  BY <1>2, <1>3, <1>4, <1>5

(* An operator's step changes its own runtime only.                        *)
Becomes(o, r) == op' = [op EXCEPT ![o] = r]

LEMMA BecomesFacts ==
  ASSUME TypeOK, NEW o \in Ops, NEW r, Becomes(o, r)
  PROVE  op'[o] = r /\ \A q \in Ops : q # o => op'[q] = op[q]
BY DEF TypeOK, Becomes

(* How the record of a phase leaves the runtime.                           *)
Rewritten(o) == [Recorded(op[o]) EXCEPT !.rv = rv']

LEMMA RewrittenFacts ==
  ASSUME TypeOK, NEW o \in Ops, rv' \in Nat
  PROVE  /\ Rewritten(o) \in Runtime
         /\ Rewritten(o).rv = rv' /\ Rewritten(o).uid = op[o].uid
         /\ Rewritten(o).spec = op[o].spec /\ Rewritten(o).status = op[o].status
         /\ Rewritten(o).pc = IF At(o, "creating") THEN "setup" ELSE "ready"
         /\ At(o, "creating") => Rewritten(o).at = 1
<1>1. op[o] \in Runtime
  BY RuntimeType
<1>2. Recorded(op[o]) \in Runtime
  BY <1>1, RecordedFacts
<1>3. /\ Rewritten(o) \in Runtime
      /\ Rewritten(o).rv = rv' /\ Rewritten(o).uid = Recorded(op[o]).uid
      /\ Rewritten(o).spec = Recorded(op[o]).spec
      /\ Rewritten(o).status = Recorded(op[o]).status
      /\ Rewritten(o).pc = Recorded(op[o]).pc /\ Rewritten(o).at = Recorded(op[o]).at
  BY <1>2 DEF Rewritten, Runtime
<1> QED
  BY <1>1, <1>3, RecordedFacts DEF At

LEMMA NoRuntimeType == NoRuntime \in Runtime /\ NoRuntime.pc = "none"
BY StepsLength DEF NoRuntime, Runtime, Phases

(* The next state of the operator's runtime, action by action.             *)
LEMMA OperatorShape ==
  ASSUME TypeOK, NEW o \in Ops, Operator(o), rv' \in Nat
  PROVE  \E r \in Runtime : Becomes(o, r) /\ (r.pc = "setup" => r.at # 0)
<1> USE RuntimeType DEF Becomes
<1>1. CASE New(o)
  BY <1>1, SetUpFacts DEF New, Copy
<1>2. CASE RecordPhase(o)
  <2>1. /\ Rewritten(o) \in Runtime
        /\ Rewritten(o).pc = "setup" => Rewritten(o).at # 0
    BY RewrittenFacts
  <2>2. Becomes(o, Rewritten(o))
    BY <1>2 DEF RecordPhase, Rewritten
  <2> QED
    BY <2>1, <2>2
<1>3. CASE RecordFails(o)
  BY <1>3, FailedFacts DEF RecordFails
<1>4. CASE At(o, "setup") /\ Becomes(o, Advanced(op[o]))
  <2>1. op[o].at # 0
    BY <1>4 DEF TypeOK
  <2>2. /\ Advanced(op[o]) \in Runtime
        /\ Advanced(op[o]).pc = "setup" => Advanced(op[o]).at # 0
    BY <1>4, <2>1, AdvancedFacts DEF At, Runtime
  <2> QED
    BY <1>4, <2>2
<1>5. CASE Skip(o)
  BY <1>4, <1>5 DEF Skip
<1>6. CASE Perform(o)
  BY <1>4, <1>6 DEF Perform
<1>7. CASE StepFails(o)
  <2>1. CASE Step(o) = "ingressBinding"
    BY <1>4, <1>7, <2>1 DEF StepFails
  <2>2. CASE Step(o) # "ingressBinding"
    BY <1>7, <2>2, FailedFacts DEF StepFails
  <2> QED
    BY <2>1, <2>2
<1>8. CASE Delete(o) \/ Crash(o)
  BY <1>8, NoRuntimeType DEF Delete, Crash
<1> QED
  BY <1>1, <1>2, <1>3, <1>5, <1>6, <1>7, <1>8 DEF Operator

LEMMA EffectType ==
  ASSUME TypeOK, NEW step, Effect(step)
  PROVE  /\ ns' \in {"absent", "active", "terminating"}
         /\ res' \in SUBSET Creations
         /\ certs' \in SUBSET {"http", "tcp"}
         /\ wiped' \in BOOLEAN
BY DEF TypeOK, Effect

LEMMA TypeInit == Init => TypeOK
<1> SUFFICES ASSUME Init
             PROVE  TypeOK
  OBVIOUS
<1>1. op \in [Ops -> Runtime]
  BY NoRuntimeType DEF Init
<1>2. \A o \in Ops : ~At(o, "setup")
  BY NoRuntimeType DEF Init, At
<1> QED
  BY <1>1, <1>2 DEF Init, TypeOK

LEMMA TypeStep == TypeOK /\ [Next]_vars => TypeOK'
<1> SUFFICES ASSUME TypeOK, [Next]_vars
             PROVE  TypeOK'
  OBVIOUS
<1>1. ASSUME NEW sp \in Specs, NEW secrets \in SUBSET {"http", "tcp"},
             CreateSpace(sp, secrets)
      PROVE  TypeOK'
  <2>1. /\ spec' \in SUBSET Options /\ asked' \in SUBSET Options
        /\ certs' \in SUBSET {"http", "tcp"} /\ given' = certs'
    BY <1>1, SpaceAssumption DEF CreateSpace, TypeOK
  <2>2. uid' \in Nat /\ rv' \in Nat /\ phase' \in Phases
    BY <1>1 DEF CreateSpace, TypeOK, Phases
  <2>3. wiped' \in BOOLEAN
    BY <1>1 DEF CreateSpace
  <2> QED
    BY <1>1, <2>1, <2>2, <2>3 DEF CreateSpace, TypeOK, At
<1>2. ASSUME NEW sp \in Specs, ModifySpace(sp)
      PROVE  TypeOK'
  BY <1>2, SpaceAssumption DEF ModifySpace, TypeOK, At, nsVars
<1>3. CASE DeleteSpace
  BY <1>3 DEF DeleteSpace, TypeOK, At, nsVars
<1>4. CASE ForeignNamespace \/ DeleteNamespace \/ NamespaceGone
  BY <1>4 DEF ForeignNamespace, DeleteNamespace, NamespaceGone, TypeOK, At, crVars
<1>5. ASSUME NEW o \in Ops, Operator(o)
      PROVE  TypeOK'
  <2>1. /\ uid' \in Nat /\ rv' \in Nat /\ phase' \in Phases \cup {"absent"}
        /\ spec' \in SUBSET Options /\ asked' \in SUBSET Options
        /\ given' \in SUBSET {"http", "tcp"}
    <3>1. op[o].status \in Phases
      BY RuntimeType DEF Runtime
    <3>2. CASE Lands(o)
      BY <3>1, <3>2 DEF Lands, TypeOK
    <3>3. CASE UNCHANGED crVars
      BY <3>3 DEF crVars, TypeOK
    <3> QED
      BY <1>5, <3>2, <3>3
         DEF Operator, New, RecordPhase, RecordFails, Skip, Perform, StepFails, Delete, Crash
  <2>2. /\ ns' \in {"absent", "active", "terminating"} /\ res' \in SUBSET Creations
        /\ certs' \in SUBSET {"http", "tcp"} /\ wiped' \in BOOLEAN
    <3>1. CASE UNCHANGED <<certs, nsVars>>
      BY <3>1 DEF nsVars, TypeOK
    <3>2. CASE Effect(Step(o))
      BY <3>2, EffectType
    <3>3. CASE Delete(o)
      BY <3>3 DEF Delete, TypeOK
    <3> QED
      BY <1>5, <3>1, <3>2, <3>3
         DEF Operator, New, RecordPhase, RecordFails, Skip, Perform, StepFails, Crash
  <2>3. begun' \in SUBSET Nat
    <3>1. op[o].uid \in Nat
      BY RuntimeType DEF Runtime
    <3> QED
      BY <1>5, <3>1 DEF TypeOK, Operator, New, RecordPhase, RecordFails, Skip, Perform,
                        StepFails, Delete, Crash
  <2>4. PICK r \in Runtime : Becomes(o, r) /\ (r.pc = "setup" => r.at # 0)
    BY <1>5, <2>1, OperatorShape
  <2>5. op' \in [Ops -> Runtime]
    BY <2>4 DEF Becomes, TypeOK
  <2>6. \A q \in Ops : op'[q].pc = "setup" => op'[q].at # 0
    BY <2>4, BecomesFacts DEF TypeOK, At
  <2> QED
    BY <2>1, <2>2, <2>3, <2>5, <2>6 DEF TypeOK, At
<1>6. CASE UNCHANGED vars
  BY <1>6 DEF vars, TypeOK, At
<1> QED
  BY <1>1, <1>2, <1>3, <1>4, <1>5, <1>6 DEF Next, Users

-----------------------------------------------------------------------------
(* The phase of the space.                                                 *)

(* A step that leaves the resource alone.                                  *)
LEMMA QuietStep ==
  ASSUME TypeOK, PhaseInv, NEW o \in Ops, NEW r, Becomes(o, r), Sound(r),
         UNCHANGED <<uid, rv, phase, spec, begun>>
  PROVE  PhaseInv'
<1>1. BegunOK'
  BY DEF PhaseInv, BegunOK
<1>2. ASSUME NEW q \in Ops
      PROVE  Sound(op[q])'
  <2>1. Sound(op'[q])
    BY BecomesFacts DEF PhaseInv
  <2> QED
    BY <2>1 DEF Sound, Knows
<1> QED
  BY <1>1, <1>2 DEF PhaseInv

(* A phase that is recorded by an operator with an up-to-date copy.        *)
LEMMA LandingFacts ==
  ASSUME TypeOK, PhaseInv, NEW o \in Ops, Recording(o), Lands(o)
  PROVE  /\ op[o].uid = uid /\ op[o].spec = spec
         /\ phase' \in {"Creating", "Active", "Failed"}
         /\ At(o, "creating") => phase = "None" /\ phase' = "Creating"
         /\ At(o, "activating") => phase = "Creating" /\ phase' = "Active"
         /\ At(o, "failing") =>
              phase' = "Failed" /\ (phase = "Active" => "invalid" \in spec)
<1>1. Sound(op[o])
  BY DEF PhaseInv
<1> QED
  BY <1>1 DEF Sound, Knows, Working, Lands, Recording, At

LEMMA LandingStep ==
  ASSUME TypeOK, PhaseInv, NEW o \in Ops, NEW r, Becomes(o, r),
         Recording(o), Lands(o), Sound(r)', begun' \in {begun, begun \cup {uid}}
  PROVE  PhaseInv'
<1> USE LandingFacts
<1>1. BegunOK'
  BY DEF PhaseInv, BegunOK, Lands, TypeOK
<1>2. ASSUME NEW q \in Ops
      PROVE  Sound(op[q])'
  <2>1. CASE q = o
    BY <2>1, BecomesFacts DEF Sound, Knows
  <2>2. CASE q # o
    <3>1. op'[q] = op[q]
      BY <2>2, BecomesFacts
    <3>2. Sound(op[q]) /\ op[q].rv \in Nat /\ op[q].uid \in Nat
      BY RuntimeType DEF PhaseInv, Runtime
    <3>3. phase # "absent" /\ uid' = uid /\ spec' = spec /\ rv' = rv + 1 /\ rv \in Nat
      BY DEF Lands, TypeOK
    <3> QED
      BY <3>1, <3>2, <3>3 DEF Sound
  <2> QED
    BY <2>1, <2>2
<1> QED
  BY <1>1, <1>2 DEF PhaseInv

(* What users change.                                                      *)
LEMMA UsersStep ==
  ASSUME TypeOK, PhaseInv, Users
  PROVE  PhaseInv'
<1>1. op' = op /\ begun' = begun
  BY DEF Users, CreateSpace, ModifySpace, DeleteSpace, ForeignNamespace, DeleteNamespace,
         NamespaceGone
<1>2. \A o \in Ops : Sound(op[o]) /\ op[o].rv \in Nat /\ op[o].uid \in Nat
  BY RuntimeType DEF PhaseInv, Runtime
<1>3. uid \in Nat /\ rv \in Nat /\ begun \in SUBSET Nat
  BY DEF TypeOK
<1>4. ASSUME NEW sp \in Specs, NEW secrets \in SUBSET {"http", "tcp"},
             CreateSpace(sp, secrets)
      PROVE  PhaseInv'
  <2>1. uid' = uid + 1 /\ rv' = rv + 1
    BY <1>4 DEF CreateSpace
  <2> QED
    BY <1>1, <1>2, <1>3, <2>1 DEF PhaseInv, BegunOK, Sound
<1>5. ASSUME NEW sp \in Specs, ModifySpace(sp)
      PROVE  PhaseInv'
  <2>1. uid' = uid /\ rv' = rv + 1 /\ phase' = phase
    BY <1>5 DEF ModifySpace, nsVars
  <2>2. BegunOK'
    BY <1>1, <2>1 DEF PhaseInv, BegunOK
  <2>3. ASSUME NEW o \in Ops
        PROVE  Sound(op[o])'
    BY <1>1, <1>2, <1>3, <2>1 DEF Sound
  <2> QED
    BY <2>2, <2>3 DEF PhaseInv
<1>6. CASE DeleteSpace
  BY <1>1, <1>2, <1>6 DEF DeleteSpace, PhaseInv, BegunOK, Sound
<1>7. CASE ForeignNamespace \/ DeleteNamespace \/ NamespaceGone
  <2>1. UNCHANGED <<uid, rv, phase, spec>>
    BY <1>7 DEF ForeignNamespace, DeleteNamespace, NamespaceGone, crVars
  <2> QED
    BY <1>1, <2>1 DEF PhaseInv, BegunOK, Sound, Knows
<1> QED
  BY <1>4, <1>5, <1>6, <1>7 DEF Users

LEMMA OperatorStep ==
  ASSUME TypeOK, PhaseInv, NEW o \in Ops, Operator(o)
  PROVE  PhaseInv'
<1>1. op[o] \in Runtime /\ Sound(op[o])
  BY RuntimeType DEF PhaseInv
<1>2. rv \in Nat /\ uid \in Nat /\ op[o].rv \in Nat
  BY <1>1 DEF TypeOK, Runtime
<1>3. CASE New(o)
  <2>1. phase # "absent" /\ Becomes(o, SetUp(Copy)) /\ UNCHANGED <<uid, rv, phase, spec, begun>>
    BY <1>3 DEF New, Becomes, Copy, crVars
  <2>2. Sound(SetUp(Copy))
    BY <1>2, <2>1, SetUpFacts DEF Sound, Knows
  <2> QED
    BY <2>1, <2>2, QuietStep
<1>4. CASE RecordPhase(o)
  <2>1. Recording(o) /\ Lands(o) /\ Becomes(o, Rewritten(o))
    BY <1>4 DEF RecordPhase, Becomes, Rewritten
  <2>2. rv' = rv + 1 /\ uid' = uid /\ spec' = spec
    BY <2>1 DEF Lands
  <2>3. /\ begun' \in {begun, begun \cup {uid}}
        /\ At(o, "creating") => op[o].uid \in begun'
    BY <1>4, <2>1, LandingFacts DEF RecordPhase
  <2>4. PICK r : r = Rewritten(o)
    OBVIOUS
  <2>5. Sound(r)'
    BY <1>1, <1>2, <2>1, <2>2, <2>3, <2>4, RewrittenFacts, LandingFacts
       DEF Sound, Knows, Working, Recording, At
  <2> QED
    BY <2>1, <2>3, <2>4, <2>5, LandingStep
<1>5. CASE RecordFails(o)
  <2>1. Recording(o) /\ Becomes(o, Failed(op[o])) /\ begun' = begun
    BY <1>5 DEF RecordFails, Becomes
  <2>2. CASE Lands(o)
    <3>1. rv' = rv + 1 /\ uid' = uid
      BY <2>2 DEF Lands
    <3>2. PICK r : r = Failed(op[o])
      OBVIOUS
    <3>3. Sound(r)'
      BY <1>1, <1>2, <3>1, <3>2, FailedFacts DEF Sound, Working
    <3> QED
      BY <2>1, <2>2, <3>2, <3>3, LandingStep
  <2>3. CASE UNCHANGED crVars
    <3>1. Sound(Failed(op[o]))
      BY <1>1, <2>1, FailedFacts DEF Sound, Knows, Working, Recording
    <3> QED
      BY <2>1, <2>3, <3>1, QuietStep DEF crVars
  <2> QED
    BY <1>5, <2>2, <2>3 DEF RecordFails
<1>6. CASE Skip(o) \/ Perform(o) \/ StepFails(o)
  <2>1. At(o, "setup") /\ UNCHANGED <<uid, rv, phase, spec, begun>>
    BY <1>6 DEF Skip, Perform, StepFails, crVars
  <2>2. Sound(Advanced(op[o]))
    BY <1>1, <2>1, AdvancedFacts DEF Sound, Knows, Working, At, TypeOK
  <2>3. Sound(Failed(op[o]))
    BY <1>1, <2>1, FailedFacts DEF Sound, Knows, Working, At
  <2>4. Becomes(o, Advanced(op[o])) \/ Becomes(o, Failed(op[o]))
    BY <1>6 DEF Skip, Perform, StepFails, Becomes
  <2> QED
    BY <2>1, <2>2, <2>3, <2>4, QuietStep
<1>7. CASE Delete(o) \/ Crash(o)
  <2>1. Becomes(o, NoRuntime) /\ UNCHANGED <<uid, rv, phase, spec, begun>>
    BY <1>7 DEF Delete, Crash, Becomes, crVars
  <2>2. Sound(NoRuntime)
    BY <1>2 DEF Sound, NoRuntime, Working
  <2> QED
    BY <2>1, <2>2, QuietStep
<1> QED
  BY <1>3, <1>4, <1>5, <1>6, <1>7 DEF Operator

LEMMA PhaseInit == Init => PhaseInv
BY DEF Init, PhaseInv, BegunOK, Sound, Working, NoRuntime

LEMMA PhaseStep == TypeOK /\ PhaseInv /\ [Next]_vars => PhaseInv'
<1> SUFFICES ASSUME TypeOK, PhaseInv, [Next]_vars
             PROVE  PhaseInv'
  OBVIOUS
<1>1. CASE UNCHANGED vars
  BY <1>1 DEF vars, PhaseInv, BegunOK, Sound, Knows
<1> QED
  BY <1>1, UsersStep, OperatorStep DEF Next

-----------------------------------------------------------------------------
(* What a setup has created.                                               *)

(* The steps an active space has taken, where its spec calls for them.     *)
Required == Creations \ {"ingressBinding"}

Taken(r) == IF r.pc = "setup" THEN r.at - 1 ELSE 18

(* Unless the namespace was deleted, it holds what r has created so far.   *)
Made(r) ==
  r.pc \in {"setup", "activating"} /\ r.uid = uid /\ ~wiped =>
    /\ Taken(r) >= 3 => ns = "active"
    /\ \A i \in 1..Taken(r) :
         Steps[i] \in Required /\ Called(Steps[i], r.spec) => Steps[i] \in res

Complete ==
  phase = "Active" /\ ~wiped =>
    /\ ns = "active"
    /\ \A step \in Required : Called(step, asked) => step \in res

CreateInv == Complete /\ \A o \in Ops : Made(op[o])

LEMMA StepsFacts ==
  /\ Steps[1] \notin Creations /\ Steps[2] \notin Creations /\ Steps[3] = "namespace"
  /\ \A i \in 1..18 : Steps[i] = "namespace" => i = 3
<1>1. /\ Steps[1] = "getHttp" /\ Steps[2] = "getTcp" /\ Steps[3] = "namespace"
      /\ Steps[4] = "netPolicy" /\ Steps[5] = "role" /\ Steps[6] = "roleBinding"
      /\ Steps[7] = "copyHttp" /\ Steps[8] = "deleteHttp" /\ Steps[9] = "copyTcp"
      /\ Steps[10] = "deleteTcp" /\ Steps[11] = "ingress" /\ Steps[12] = "deployment"
      /\ Steps[13] = "service" /\ Steps[14] = "ingressAccount"
      /\ Steps[15] = "ingressRole" /\ Steps[16] = "ingressBinding"
      /\ Steps[17] = "ingressApp" /\ Steps[18] = "dns"
  BY DEF Steps
<1>2. \A i \in 1..18 : i \in {1, 2, 3, 4, 5, 6, 7, 8, 9, 10, 11, 12, 13, 14, 15, 16, 17, 18}
  OBVIOUS
<1> QED
  BY <1>1, <1>2 DEF Creations

LEMMA EveryCreationIsAStep ==
  ASSUME NEW step \in Creations
  PROVE  \E i \in 1..18 : Steps[i] = step
<1>1. Steps[3] = "namespace" /\ Steps[4] = "netPolicy" /\ Steps[5] = "role"
      /\ Steps[6] = "roleBinding" /\ Steps[7] = "copyHttp" /\ Steps[9] = "copyTcp"
      /\ Steps[11] = "ingress" /\ Steps[12] = "deployment" /\ Steps[13] = "service"
      /\ Steps[14] = "ingressAccount" /\ Steps[15] = "ingressRole"
      /\ Steps[16] = "ingressBinding" /\ Steps[17] = "ingressApp"
  BY DEF Steps
<1> QED
  BY <1>1 DEF Creations

(* What happens to the namespace leaves what r made in place, or deletes   *)
(* all of it. *)
Keeps ==
  \/ wiped'
  \/ wiped' = wiped /\ res \subseteq res' /\ (ns = "active" => ns' = "active")
  \/ NamespaceGone

LEMMA MadeIsKept ==
  ASSUME TypeOK, NEW r \in Runtime, Made(r), uid' = uid, Keeps
  PROVE  Made(r)'
<1>1. CASE wiped'
  BY <1>1 DEF Made
<1>2. CASE wiped' = wiped /\ res \subseteq res' /\ (ns = "active" => ns' = "active")
  BY <1>2 DEF Made, Taken
<1>3. CASE NamespaceGone
  <2>1. SUFFICES ASSUME r.pc \in {"setup", "activating"}, r.uid = uid, ~wiped
                 PROVE  Taken(r) < 3
    <3>1. wiped' = wiped
      BY <1>3 DEF NamespaceGone
    <3>2. \A i \in 1..Taken(r) : Taken(r) < 3 => i = 1 \/ i = 2
      BY DEF Taken, Runtime
    <3> QED
      BY <2>1, <3>1, <3>2, StepsFacts DEF Made, Required
  <2>2. ns # "active"
    BY <1>3 DEF NamespaceGone
  <2> QED
    BY <2>1, <2>2 DEF Made, Taken, Runtime
<1> QED
  BY <1>1, <1>2, <1>3 DEF Keeps

LEMMA CompleteIsKept ==
  ASSUME TypeOK, Complete, Keeps, phase' = phase, asked' = asked
  PROVE  Complete'
<1>1. CASE wiped'
  BY <1>1 DEF Complete
<1>2. CASE wiped' = wiped /\ res \subseteq res' /\ (ns = "active" => ns' = "active")
  BY <1>2 DEF Complete
<1>3. CASE NamespaceGone
  BY <1>3 DEF NamespaceGone, Complete
<1> QED
  BY <1>1, <1>2, <1>3 DEF Keeps

(* Users, and the namespace controller.                                    *)
LEMMA UsersCreateStep ==
  ASSUME TypeOK, PhaseInv, CreateInv, Users
  PROVE  CreateInv'
<1>1. op' = op
  BY DEF Users, CreateSpace, ModifySpace, DeleteSpace, ForeignNamespace, DeleteNamespace,
         NamespaceGone
<1>2. ASSUME NEW sp \in Specs, NEW secrets \in SUBSET {"http", "tcp"},
             CreateSpace(sp, secrets)
      PROVE  CreateInv'
  <2>1. phase' = "None" /\ uid' = uid + 1
    BY <1>2 DEF CreateSpace
  <2>2. \A o \in Ops : op[o].uid # uid'
    BY <2>1, RuntimeType DEF PhaseInv, Sound, TypeOK, Runtime
  <2> QED
    BY <1>1, <2>1, <2>2 DEF CreateInv, Complete, Made
<1>3. ASSUME uid' = uid, Keeps, Complete'
      PROVE  CreateInv'
  <2>1. \A o \in Ops : Made(op[o])'
    <3>1. ASSUME NEW o \in Ops
          PROVE  Made(op[o])'
      <4>1. PICK r \in Runtime : r = op[o]
        BY RuntimeType
      <4>2. Made(r)'
        BY <1>3, <4>1, MadeIsKept DEF CreateInv
      <4> QED
        BY <1>1, <4>1, <4>2
    <3> QED
      BY <3>1
  <2> QED
    BY <1>3, <2>1 DEF CreateInv
<1>4. ASSUME NEW sp \in Specs, ModifySpace(sp)
      PROVE  CreateInv'
  <2>1. uid' = uid /\ Keeps /\ phase' = phase /\ asked' = asked
    BY <1>4 DEF ModifySpace, nsVars, Keeps
  <2> QED
    BY <1>3, <2>1, CompleteIsKept DEF CreateInv
<1>5. CASE DeleteSpace
  <2>1. uid' = uid /\ Keeps /\ phase' = "absent"
    BY <1>5 DEF DeleteSpace, nsVars, Keeps
  <2> QED
    BY <1>3, <2>1 DEF Complete
<1>6. CASE ForeignNamespace \/ DeleteNamespace \/ NamespaceGone
  <2>1. uid' = uid /\ phase' = phase /\ asked' = asked
    BY <1>6 DEF ForeignNamespace, DeleteNamespace, NamespaceGone, crVars
  <2>2. Keeps
    BY <1>6 DEF ForeignNamespace, DeleteNamespace, Keeps
  <2> QED
    BY <1>3, <2>1, <2>2, CompleteIsKept DEF CreateInv
<1> QED
  BY <1>2, <1>4, <1>5, <1>6 DEF Users

(* The operators other than o, and what is recorded, while o takes a step. *)
LEMMA OthersKeep ==
  ASSUME TypeOK, CreateInv, NEW o \in Ops, NEW r, Becomes(o, r),
         uid' = uid, Keeps, Made(r)', Complete'
  PROVE  CreateInv'
<1>1. ASSUME NEW q \in Ops
      PROVE  Made(op[q])'
  <2>1. CASE q = o
    BY <2>1, BecomesFacts DEF Made, Taken
  <2>2. CASE q # o
    <3>1. PICK s \in Runtime : s = op[q]
      BY RuntimeType
    <3>2. Made(s)'
      BY <3>1, MadeIsKept DEF CreateInv
    <3> QED
      BY <2>2, <3>1, <3>2, BecomesFacts
  <2> QED
    BY <2>1, <2>2
<1> QED
  BY <1>1 DEF CreateInv

(* A write of the phase: Active is recorded at the end of a setup only.    *)
LEMMA LandingIsComplete ==
  ASSUME TypeOK, PhaseInv, CreateInv, NEW o \in Ops, Recording(o), Lands(o),
         UNCHANGED nsVars
  PROVE  Complete'
<1>1. CASE ~At(o, "activating")
  <2>1. phase' # "Active"
    BY <1>1, LandingFacts DEF Recording, At
  <2> QED
    BY <2>1 DEF Complete
<1>2. CASE At(o, "activating")
  <2>1. /\ Made(op[o]) /\ op[o].uid = uid /\ op[o].spec = spec
        /\ phase' = "Active" /\ asked' = spec
    BY <1>2, LandingFacts DEF CreateInv, Lands
  <2>2. Taken(op[o]) = 18
    BY <1>2 DEF At, Taken
  <2>3. ~wiped => ns = "active" /\ \A i \in 1..18 :
                    Steps[i] \in Required /\ Called(Steps[i], spec) => Steps[i] \in res
    BY <1>2, <2>1, <2>2 DEF Made, At
  <2>4. ~wiped => \A step \in Required : Called(step, spec) => step \in res
    BY <2>3, EveryCreationIsAStep DEF Required
  <2> QED
    BY <2>1, <2>3, <2>4 DEF Complete, nsVars
<1> QED
  BY <1>1, <1>2

(* One step of a setup: what it calls for is there when it is over.        *)
LEMMA StepIsMade ==
  ASSUME TypeOK, NEW o \in Ops, At(o, "setup"), Made(op[o]), NEW r, r = Advanced(op[o]),
         UNCHANGED crVars,
         \/ UNCHANGED nsVars
         \/ Possible(Step(o)) /\ Effect(Step(o)),
         Step(o) \in Required /\ Called(Step(o), op[o].spec) => Step(o) \in res',
         Step(o) = "namespace" => ns' = "active"
  PROVE  Keeps /\ Made(r)'
<1>1. /\ op[o] \in Runtime /\ op[o].at \in 1..18 /\ Taken(op[o]) = op[o].at - 1
      /\ Step(o) = Steps[op[o].at]
  BY RuntimeType, StepsLength DEF TypeOK, Runtime, At, Taken, Step
<1>2. r.pc \in {"setup", "activating"} /\ r.uid = op[o].uid /\ r.spec = op[o].spec
      /\ Taken(r) = op[o].at
  BY <1>1, AdvancedFacts DEF At, Taken
<1>3. wiped' = wiped /\ res \subseteq res' /\ (ns = "active" => ns' = "active")
  BY DEF Effect, Possible, nsVars
<1>4. ASSUME r.uid = uid', ~wiped'
      PROVE  /\ Taken(r) >= 3 => ns' = "active"
             /\ \A i \in 1..Taken(r) :
                  Steps[i] \in Required /\ Called(Steps[i], r.spec) => Steps[i] \in res'
  <2>1. op[o].pc \in {"setup", "activating"} /\ op[o].uid = uid /\ ~wiped
    BY <1>2, <1>3, <1>4 DEF At, crVars
  <2>2. /\ op[o].at - 1 >= 3 => ns = "active"
        /\ \A i \in 1..(op[o].at - 1) :
             Steps[i] \in Required /\ Called(Steps[i], op[o].spec) => Steps[i] \in res
    BY <1>1, <2>1 DEF Made
  <2>3. Taken(r) >= 3 => ns' = "active"
    BY <1>1, <1>2, <1>3, <2>2, StepsFacts
  <2>4. \A i \in 1..Taken(r) :
          Steps[i] \in Required /\ Called(Steps[i], r.spec) => Steps[i] \in res'
    BY <1>1, <1>2, <1>3, <2>2
  <2> QED
    BY <2>3, <2>4
<1>5. Made(r)'
  BY <1>4 DEF Made, Taken
<1> QED
  BY <1>3, <1>5 DEF Keeps

LEMMA OperatorCreateStep ==
  ASSUME TypeOK, PhaseInv, CreateInv, NEW o \in Ops, Operator(o)
  PROVE  CreateInv'
<1>1. op[o] \in Runtime /\ Made(op[o]) /\ Complete
  BY RuntimeType DEF CreateInv
<1>2. ASSUME UNCHANGED <<crVars, nsVars>>
      PROVE  uid' = uid /\ Keeps /\ Complete'
  <2>1. Keeps /\ phase' = phase /\ asked' = asked
    BY <1>2 DEF Keeps, crVars, nsVars
  <2> QED
    BY <1>1, <1>2, <2>1, CompleteIsKept DEF crVars
<1>3. CASE New(o)
  <2>1. PICK r : r = SetUp(Copy)
    OBVIOUS
  <2>2. Becomes(o, r) /\ UNCHANGED <<crVars, nsVars>>
    BY <1>3, <2>1 DEF New, Becomes, Copy
  <2>3. Made(r)'
    BY <1>3, <2>1, SetUpFacts DEF Made, New
  <2> QED
    BY <1>2, <2>2, <2>3, OthersKeep
<1>4. CASE RecordPhase(o)
  <2>1. Recording(o) /\ Lands(o) /\ UNCHANGED nsVars /\ Becomes(o, Rewritten(o))
    BY <1>4 DEF RecordPhase, Becomes, Rewritten
  <2>2. PICK r : r = Rewritten(o)
    OBVIOUS
  <2>3. Made(r)'
    BY <1>4, <2>1, <2>2, RewrittenFacts DEF Made, Taken, Lands, TypeOK
  <2>4. uid' = uid /\ Keeps
    BY <2>1 DEF Lands, Keeps, nsVars
  <2> QED
    BY <2>1, <2>2, <2>3, <2>4, LandingIsComplete, OthersKeep
<1>5. ASSUME NEW r, r = Failed(op[o])
      PROVE  Made(r)'
  BY <1>1, <1>5, FailedFacts DEF Made
<1>6. CASE RecordFails(o)
  <2>1. PICK r : r = Failed(op[o])
    OBVIOUS
  <2>2. Recording(o) /\ UNCHANGED nsVars /\ Becomes(o, r) /\ (Lands(o) \/ UNCHANGED crVars)
    BY <1>6, <2>1 DEF RecordFails, Becomes
  <2>3. uid' = uid /\ Keeps
    BY <2>2 DEF Lands, crVars, Keeps, nsVars
  <2>4. Complete'
    BY <1>2, <2>2, LandingIsComplete
  <2> QED
    BY <1>5, <2>1, <2>2, <2>3, <2>4, OthersKeep
<1>7. ASSUME UNCHANGED crVars, Keeps
      PROVE  uid' = uid /\ Complete'
  BY <1>1, <1>7, CompleteIsKept DEF crVars
<1>8. CASE Skip(o) \/ Perform(o) \/ (StepFails(o) /\ Step(o) = "ingressBinding")
  <2>1. PICK r : r = Advanced(op[o])
    OBVIOUS
  <2>2. At(o, "setup") /\ Becomes(o, r) /\ UNCHANGED crVars
    BY <1>8, <2>1 DEF Skip, Perform, StepFails, Becomes
  <2>3. UNCHANGED nsVars \/ (Possible(Step(o)) /\ Effect(Step(o)))
    BY <1>8 DEF Skip, Perform, StepFails
  <2>4. Step(o) \in Required /\ Called(Step(o), op[o].spec) => Step(o) \in res'
    BY <1>8 DEF Skip, Perform, Effect, Required
  <2>5. Step(o) = "namespace" => ns' = "active"
    <3>1. OptionsOf("namespace") = {}
      BY DEF OptionsOf
    <3> QED
      BY <1>8, <3>1 DEF Skip, Perform, Effect, Called
  <2>6. Keeps /\ Made(r)'
    BY <1>1, <2>1, <2>2, <2>3, <2>4, <2>5, StepIsMade
  <2> QED
    BY <1>7, <2>2, <2>6, OthersKeep
<1>9. CASE StepFails(o) /\ Step(o) # "ingressBinding"
  <2>1. PICK r : r = Failed(op[o])
    OBVIOUS
  <2>2. Becomes(o, r) /\ UNCHANGED crVars
    BY <1>9, <2>1 DEF StepFails, Becomes
  <2>3. Keeps
    BY <1>9 DEF StepFails, Effect, Possible, nsVars, Keeps
  <2> QED
    BY <1>5, <1>7, <2>1, <2>2, <2>3, OthersKeep
<1>10. CASE Delete(o) \/ Crash(o)
  <2>1. Becomes(o, NoRuntime) /\ UNCHANGED crVars
    BY <1>10 DEF Delete, Crash, Becomes
  <2>2. Keeps
    BY <1>10 DEF Delete, Crash, Keeps, nsVars
  <2>3. PICK r : r = NoRuntime
    OBVIOUS
  <2>4. Made(r)'
    BY <2>3 DEF Made, NoRuntime
  <2> QED
    BY <1>7, <2>1, <2>2, <2>3, <2>4, OthersKeep
<1> QED
  BY <1>3, <1>4, <1>6, <1>8, <1>9, <1>10 DEF Operator

-----------------------------------------------------------------------------
(* The theorems.                                                           *)

Inv == TypeOK /\ PhaseInv /\ CreateInv

LEMMA InvInit == Init => Inv
<1>1. Init => CreateInv
  BY DEF Init, CreateInv, Complete, Made, NoRuntime
<1> QED
  BY <1>1, TypeInit, PhaseInit DEF Inv

LEMMA InvStep == Inv /\ [Next]_vars => Inv'
<1>1. SUFFICES ASSUME TypeOK, PhaseInv, CreateInv, [Next]_vars
               PROVE  CreateInv'
  BY TypeStep, PhaseStep DEF Inv
<1>2. CASE UNCHANGED vars
  BY <1>1, <1>2 DEF vars, CreateInv, Complete, Made, Taken
<1> QED
  BY <1>1, <1>2, UsersCreateStep, OperatorCreateStep DEF Next

(* The variables keep their types, for any operators, specs and bounds. *)
THEOREM TypeCorrect == Spec => []TypeOK
BY TypeInit, TypeStep, PTL DEF Spec

(* A space on record as Active has all that its spec asked for when it was *)
(* recorded, whichever calls failed and whoever else worked on it, and     *)
(* however its users edit it (internalCreate, create).                     *)
THEOREM ActiveHasEverything == Spec => []ActiveIsComplete
<1>1. Inv => ActiveIsComplete
  BY DEF Inv, CreateInv, Complete, Required, ActiveIsComplete
<1> QED
  BY InvInit, InvStep, <1>1, PTL DEF Spec

(* The resources of a space resource are begun to be created once at most, *)
(* by any number of operators that crash and restart (setup, create). *)
THEOREM CreatedOnce == Spec => CreateOnce
<1>1. Inv /\ [Next]_vars =>
        [\A o \in Ops :
           At(o, "creating") /\ op'[o].pc = "setup" => op[o].uid \notin begun]_vars
  <2> SUFFICES ASSUME Inv, [Next]_vars, NEW o \in Ops,
                      At(o, "creating"), op'[o].pc = "setup"
               PROVE  op[o].uid \notin begun
    OBVIOUS
  <2> USE DEF Inv
  <2>1. op'[o] # op[o]
    BY DEF At
  <2>2. Operator(o)
    <3>1. ~UNCHANGED op
      BY <2>1
    <3>2. PICK q \in Ops : Operator(q)
      BY <3>1 DEF Next, vars, Users, CreateSpace, ModifySpace, DeleteSpace,
                  ForeignNamespace, DeleteNamespace, NamespaceGone
    <3>3. rv' \in Nat
      BY TypeStep DEF TypeOK
    <3>4. PICK r \in Runtime : Becomes(q, r)
      BY <3>2, <3>3, OperatorShape
    <3> QED
      BY <2>1, <3>2, <3>4, BecomesFacts
  <2>3. RecordPhase(o)
    <3>1. op[o] \in Runtime
      BY RuntimeType
    <3>2. ~RecordFails(o)
      BY <3>1, FailedFacts DEF RecordFails, TypeOK
    <3>3. ~Delete(o) /\ ~Crash(o)
      BY NoRuntimeType DEF Delete, Crash, TypeOK
    <3> QED
      BY <2>2, <3>2, <3>3 DEF Operator, New, Skip, Perform, StepFails, At
  <2>4. op[o].uid = uid /\ phase = "None"
    BY <2>3, LandingFacts DEF RecordPhase
  <2> QED
    BY <2>4 DEF PhaseInv, BegunOK
<1> QED
  BY InvInit, InvStep, <1>1, PTL DEF Spec, CreateOnce

-----------------------------------------------------------------------------
(* One operator at a time.                                                 *)

(* A setup goes on, or starts with the record of Creating.                 *)
LEMMA SetupContinues ==
  ASSUME Inv, [Next]_vars, NEW o \in Ops, SettingUp(o)'
  PROVE  /\ op'[o].uid = op[o].uid
         /\ SettingUp(o) \/ (At(o, "creating") /\ RecordPhase(o))
<1> USE DEF Inv, SettingUp
<1>1. CASE op'[o] = op[o]
  BY <1>1
<1>2. CASE op'[o] # op[o]
  <2>1. Operator(o)
    <3>1. PICK q \in Ops : Operator(q)
      BY <1>2 DEF Next, vars, Users, CreateSpace, ModifySpace, DeleteSpace,
                  ForeignNamespace, DeleteNamespace, NamespaceGone
    <3>2. rv' \in Nat
      BY TypeStep DEF TypeOK
    <3>3. PICK r \in Runtime : Becomes(q, r)
      BY <3>1, <3>2, OperatorShape
    <3> QED
      BY <1>2, <3>1, <3>3, BecomesFacts
  <2>2. op[o] \in Runtime
    BY RuntimeType
  <2>3. CASE New(o)
    <3>1. op'[o] = SetUp(Copy) /\ phase # "absent"
      BY <2>3 DEF New, Copy, TypeOK
    <3> QED
      BY <3>1, SetUpFacts
  <2>4. CASE RecordPhase(o)
    <3>1. rv' \in Nat
      BY TypeStep DEF TypeOK
    <3>2. op'[o] = Rewritten(o)
      BY <2>4 DEF RecordPhase, Rewritten, TypeOK
    <3> QED
      BY <2>4, <3>1, <3>2, RewrittenFacts DEF At
  <2>5. CASE op' = [op EXCEPT ![o] = Failed(op[o])]
    <3>1. op'[o] = Failed(op[o])
      BY <2>5 DEF TypeOK
    <3> QED
      BY <2>2, <3>1, FailedFacts
  <2>6. CASE At(o, "setup") /\ op' = [op EXCEPT ![o] = Advanced(op[o])]
    <3>1. op'[o] = Advanced(op[o]) /\ op[o].at # 0
      BY <2>6 DEF TypeOK
    <3> QED
      BY <2>2, <2>6, <3>1, AdvancedFacts DEF At
  <2>7. CASE Delete(o) \/ Crash(o)
    <3>1. op'[o] = NoRuntime
      BY <2>7 DEF Delete, Crash, TypeOK
    <3> QED
      BY <3>1 DEF NoRuntime
  <2> QED
    BY <2>1, <2>3, <2>4, <2>5, <2>6, <2>7 DEF Operator, RecordFails, Skip, Perform, StepFails
<1> QED
  BY <1>1, <1>2

(* A setup that starts is of a uid that was not begun, and so of none that *)
(* another operator is setting up. *)
LEMMA OneSetupStep == Inv /\ OneSetup /\ [Next]_vars => OneSetup'
<1> SUFFICES ASSUME Inv, OneSetup, [Next]_vars, NEW o \in Ops, NEW p \in Ops,
                    SettingUp(o)', SettingUp(p)', op'[o].uid = op'[p].uid
             PROVE  o = p
  BY DEF OneSetup
<1>1. op[o].uid = op[p].uid
  BY SetupContinues
<1>2. ASSUME NEW q \in Ops, NEW s \in Ops, RecordPhase(q), At(q, "creating"), SettingUp(s)
      PROVE  op[q].uid # op[s].uid
  <2>1. op[q].uid = uid /\ phase = "None"
    BY <1>2, LandingFacts DEF Inv, RecordPhase
  <2>2. op[s].uid \in begun
    BY <1>2 DEF Inv, PhaseInv, Sound, SettingUp
  <2> QED
    BY <2>1, <2>2 DEF Inv, PhaseInv, BegunOK
<1>3. ASSUME NEW q \in Ops, NEW s \in Ops, RecordPhase(q), At(q, "creating"),
             RecordPhase(s), At(s, "creating")
      PROVE  q = s
  <2>1. Becomes(q, Rewritten(q)) /\ Becomes(s, Rewritten(s)) /\ rv' \in Nat
    BY <1>3, TypeStep DEF Inv, RecordPhase, Becomes, Rewritten, TypeOK
  <2>2. op'[q].pc = "setup"
    BY <1>3, <2>1, BecomesFacts, RewrittenFacts DEF Inv
  <2>3. q # s => op'[q] = op[q]
    BY <2>1, BecomesFacts DEF Inv
  <2> QED
    BY <1>3, <2>2, <2>3 DEF At
<1>4. /\ SettingUp(o) \/ (At(o, "creating") /\ RecordPhase(o))
      /\ SettingUp(p) \/ (At(p, "creating") /\ RecordPhase(p))
  BY SetupContinues
<1> QED
  BY <1>1, <1>2, <1>3, <1>4 DEF OneSetup

(* With any number of operators, one at most is setting a space resource   *)
(* up (create).                                                            *)
THEOREM SetUpByOne == Spec => []OneSetup
<1>1. Init => OneSetup
  BY DEF Init, OneSetup, SettingUp, NoRuntime
<1> QED
  BY InvInit, InvStep, OneSetupStep, <1>1, PTL DEF Spec

-----------------------------------------------------------------------------
(* A space is a resource as Lifecycle describes it.                        *)

LEMMA LifeInit == Init => Life!Init
BY DEF Init, Life!Init

LEMMA LifeUsers ==
  ASSUME TypeOK, Users
  PROVE  [Life!Next]_(Life!vars)
<1> USE DEF Life!Next, Life!vars
<1>1. ASSUME NEW sp \in Specs, NEW secrets \in SUBSET {"http", "tcp"},
             CreateSpace(sp, secrets)
      PROVE  Life!Create
  BY <1>1 DEF CreateSpace, Life!Create
<1>2. ASSUME NEW sp \in Specs, ModifySpace(sp)
      PROVE  Life!Change
  BY <1>2 DEF ModifySpace, Life!Change
<1>3. CASE DeleteSpace
  BY <1>3 DEF DeleteSpace, Life!Delete
<1>4. CASE ForeignNamespace \/ DeleteNamespace \/ NamespaceGone
  BY <1>4 DEF ForeignNamespace, DeleteNamespace, NamespaceGone, crVars
<1> QED
  BY <1>1, <1>2, <1>3, <1>4 DEF Users

(* A phase that lands is a step of Lifecycle: the copy it was written from *)
(* is up to date. *)
LEMMA LifeLanding ==
  ASSUME TypeOK, PhaseInv, NEW o \in Ops, Recording(o), Lands(o),
         begun' = begun \/ (At(o, "creating") /\ begun' = begun \cup {op[o].uid})
  PROVE  [Life!Next]_(Life!vars)
<1> USE DEF Life!Next, Life!vars
<1>1. phase \in Phases /\ uid' = uid /\ spec' = spec
  BY DEF Lands, TypeOK
<1>2. CASE At(o, "creating")
  <2>1. uid \notin begun
    BY <1>1, <1>2, LandingFacts DEF PhaseInv, BegunOK, Lands
  <2> QED
    BY <1>1, <1>2, <2>1, LandingFacts DEF Life!Start
<1>3. CASE At(o, "activating")
  <2>1. uid \in begun
    BY <1>3, LandingFacts DEF PhaseInv, Sound, At
  <2> QED
    BY <1>1, <1>3, <2>1, LandingFacts DEF Life!Finish, At
<1>4. CASE At(o, "failing")
  BY <1>1, <1>4, LandingFacts DEF Life!Fail, At, Phases
<1> QED
  BY <1>2, <1>3, <1>4 DEF Recording, At

LEMMA LifeOperator ==
  ASSUME TypeOK, PhaseInv, NEW o \in Ops, Operator(o)
  PROVE  [Life!Next]_(Life!vars)
<1>1. CASE RecordPhase(o)
  <2>1. /\ Recording(o) /\ Lands(o)
        /\ begun' = begun \/ (At(o, "creating") /\ begun' = begun \cup {op[o].uid})
    BY <1>1 DEF RecordPhase
  <2> QED
    BY <2>1, LifeLanding
<1>2. CASE RecordFails(o) /\ Lands(o)
  <2>1. Recording(o) /\ begun' = begun
    BY <1>2 DEF RecordFails
  <2> QED
    BY <1>2, <2>1, LifeLanding
<1>3. CASE UNCHANGED <<crVars, begun>>
  BY <1>3 DEF crVars, Life!vars
<1> QED
  BY <1>1, <1>2, <1>3 DEF Operator, New, RecordFails, Skip, Perform, StepFails, Delete, Crash

LEMMA LifeStep == Inv /\ [Next]_vars => [Life!Next]_(Life!vars)
<1> SUFFICES ASSUME TypeOK, PhaseInv, [Next]_vars
             PROVE  [Life!Next]_(Life!vars)
  BY DEF Inv
<1>1. CASE UNCHANGED vars
  BY <1>1 DEF vars, Life!vars
<1> QED
  BY <1>1, LifeUsers, LifeOperator DEF Next

(* A space implements Lifecycle, with any number of operators that crash,  *)
(* lose answers and write from old copies (setup, create, updateCRStatus). *)
THEOREM LivesAsPromised == Spec => ImplementsLifecycle
BY InvInit, InvStep, LifeInit, LifeStep, PTL DEF Spec, Life!Spec, ImplementsLifecycle

(* So its phase moves forward only: no operator undoes another's verdict   *)
(* with an old copy (updateCRStatus). *)
THEOREM MovesForward == Spec => Life!Forward
<1>1. TypeOK /\ Life!Next => Life!Moves
  BY DEF TypeOK, Life!Next, Life!Create, Life!Change, Life!Delete, Life!Start, Life!Finish,
         Life!Fail, Life!Moves
<1>2. Inv /\ [Next]_vars => [Life!Moves]_(Life!vars)
  BY <1>1, LifeStep DEF Inv
<1> QED
  BY InvInit, InvStep, <1>2, PTL DEF Spec, Life!Forward

-----------------------------------------------------------------------------
(* The certificates of a space.                                            *)

(* Whoever sets a space up sets up the resource that exists, or the last   *)
(* that did: no setup has outlived its resource and the creation of the    *)
(* next one. *)
Timely == \A o \in Ops : At(o, "setup") => op[o].uid = uid

(* As long as there is no namespace to copy to, no certificate is removed. *)
CertInv ==
  /\ CertsAreKept
  /\ ~wiped /\ ns # "active" => given \subseteq certs

LEMMA CertInit == Init => CertInv
BY DEF Init, CertInv, CertsAreKept

(* A certificate is removed where its copy is.                             *)
LEMMA CopiedBefore ==
  ASSUME TypeOK, NEW o \in Ops, Made(op[o]), op[o].uid = uid, At(o, "setup"), ~wiped,
         Called(Step(o), op[o].spec)
  PROVE  /\ Step(o) = "deleteHttp" => ns = "active" /\ "copyHttp" \in res
         /\ Step(o) = "deleteTcp" => ns = "active" /\ "copyTcp" \in res
<1>1. op[o].at \in 1..18 /\ Taken(op[o]) = op[o].at - 1
  BY RuntimeType, StepsLength DEF TypeOK, Runtime, At, Taken
<1>2. /\ Taken(op[o]) >= 3 => ns = "active"
      /\ \A i \in 1..Taken(op[o]) :
           Steps[i] \in Required /\ Called(Steps[i], op[o].spec) => Steps[i] \in res
  BY DEF Made, At
<1>3. /\ \A i \in 1..18 : (Steps[i] = "deleteHttp" => i = 8) /\ (Steps[i] = "deleteTcp" => i = 10)
      /\ Steps[7] = "copyHttp" /\ Steps[9] = "copyTcp"
  <2>1. \A i \in 1..18 : i \in {1, 2, 3, 4, 5, 6, 7, 8, 9, 10, 11, 12, 13, 14, 15, 16, 17, 18}
    OBVIOUS
  <2> QED
    BY <2>1 DEF Steps
<1>4. "copyHttp" \in Required /\ "copyTcp" \in Required /\ Called("copyHttp", op[o].spec)
  BY DEF Required, Creations, Called, OptionsOf
<1>5. Step(o) = "deleteTcp" => Called("copyTcp", op[o].spec)
  BY DEF Called, OptionsOf
<1>6. CASE Step(o) = "deleteHttp"
  <2>1. op[o].at = 8
    BY <1>1, <1>3, <1>6 DEF Step
  <2> QED
    BY <1>1, <1>2, <1>3, <1>4, <1>6, <2>1
<1>7. CASE Step(o) = "deleteTcp"
  <2>1. op[o].at = 10
    BY <1>1, <1>3, <1>7 DEF Step
  <2> QED
    BY <1>1, <1>2, <1>3, <1>4, <1>5, <1>7, <2>1
<1> QED
  BY <1>6, <1>7

(* What has an effect on the certificates and the namespace.               *)
LEMMA EffectKeepsCerts ==
  ASSUME Inv, CertInv, Timely, NEW o \in Ops, At(o, "setup"), Called(Step(o), op[o].spec),
         Possible(Step(o)), Effect(Step(o)), UNCHANGED crVars
  PROVE  CertsAreKept' /\ (~wiped' /\ ns' # "active" => (given \subseteq certs)')
<1>1. /\ given' = given /\ wiped' = wiped /\ res \subseteq res' /\ (ns = "active" => ns' = "active")
      /\ certs' = CASE Step(o) = "deleteHttp" -> certs \ {"http"}
                    [] Step(o) = "deleteTcp" -> certs \ {"tcp"}
                    [] OTHER -> certs
  BY DEF Effect, Possible, crVars
<1>2. TypeOK /\ Made(op[o]) /\ op[o].uid = uid
  BY DEF Inv, CreateInv, Timely
<1>3. \A k \in given : k \in certs \/ CopyOf(k) \in res \/ wiped
  BY DEF CertInv, CertsAreKept
<1>4. CASE wiped
  BY <1>1, <1>4 DEF CertsAreKept
<1>5. CASE ~wiped /\ Step(o) = "deleteHttp"
  <2>1. ns = "active" /\ "copyHttp" \in res
    BY <1>2, <1>5, CopiedBefore
  <2>2. certs' = certs \ {"http"} /\ CopyOf("http") = "copyHttp"
    BY <1>1, <1>5 DEF CopyOf
  <2>3. \A k \in given : k \in certs' \/ CopyOf(k) \in res'
    BY <1>1, <1>3, <1>5, <2>1, <2>2
  <2> QED
    BY <1>1, <2>1, <2>3 DEF CertsAreKept
<1>6. CASE ~wiped /\ Step(o) = "deleteTcp"
  <2>1. ns = "active" /\ "copyTcp" \in res
    BY <1>2, <1>6, CopiedBefore
  <2>2. certs' = certs \ {"tcp"} /\ CopyOf("tcp") = "copyTcp"
    BY <1>1, <1>6 DEF CopyOf
  <2>3. \A k \in given : k \in certs' \/ CopyOf(k) \in res'
    BY <1>1, <1>3, <1>6, <2>1, <2>2
  <2> QED
    BY <1>1, <2>1, <2>3 DEF CertsAreKept
<1>7. CASE ~wiped /\ Step(o) \notin {"deleteHttp", "deleteTcp"}
  <2>1. certs' = certs
    BY <1>1, <1>7
  <2> QED
    BY <1>1, <1>3, <2>1 DEF CertsAreKept, CertInv
<1> QED
  BY <1>4, <1>5, <1>6, <1>7

LEMMA CertStep ==
  ASSUME Inv, CertInv, Timely, [Next]_vars
  PROVE  CertInv'
<1>1. \A k \in given : k \in certs \/ CopyOf(k) \in res \/ wiped
  BY DEF CertInv, CertsAreKept
<1>2. ASSUME given' = given, certs' = certs, res' = res, wiped' = wiped,
             ns = "active" => ns' = "active"
      PROVE  CertInv'
  BY <1>1, <1>2 DEF CertInv, CertsAreKept
<1>3. ASSUME given' = given, certs' = certs, wiped'
      PROVE  CertInv'
  BY <1>3 DEF CertInv, CertsAreKept
<1>4. ASSUME NEW sp \in Specs, NEW secrets \in SUBSET {"http", "tcp"}, CreateSpace(sp, secrets)
      PROVE  CertInv'
  BY <1>4 DEF CreateSpace, CertInv, CertsAreKept
<1>5. CASE NamespaceGone
  <2>1. given' = given /\ certs' = certs /\ wiped' = wiped
    BY <1>5 DEF NamespaceGone, crVars
  <2>2. wiped \/ given \subseteq certs
    BY <1>5 DEF NamespaceGone, CertInv
  <2> QED
    BY <2>1, <2>2 DEF CertInv, CertsAreKept
<1>6. CASE Users /\ ~NamespaceGone /\ ~\E sp \in Specs, secrets \in SUBSET {"http", "tcp"} : CreateSpace(sp, secrets)
  <2>1. CASE DeleteNamespace
    BY <1>3, <2>1 DEF DeleteNamespace, crVars
  <2>2. CASE ~DeleteNamespace
    BY <1>2, <1>6, <2>2 DEF Users, ModifySpace, DeleteSpace, ForeignNamespace, crVars, nsVars
  <2> QED
    BY <2>1, <2>2
<1>7. ASSUME NEW o \in Ops, Operator(o) PROVE CertInv'
  <2>1. CASE New(o) \/ RecordPhase(o) \/ RecordFails(o) \/ Skip(o) \/ Crash(o)
    BY <1>2, <2>1 DEF New, RecordPhase, RecordFails, Skip, Crash, Lands, crVars, nsVars
  <2>2. CASE Delete(o)
    BY <1>2, <1>3, <2>2 DEF Delete, crVars
  <2>3. CASE Perform(o)
    BY <2>3, EffectKeepsCerts DEF Perform, CertInv
  <2>4. CASE StepFails(o)
    <3>1. CASE UNCHANGED <<certs, nsVars>>
      BY <1>2, <2>4, <3>1 DEF StepFails, crVars, nsVars
    <3>2. CASE ~UNCHANGED <<certs, nsVars>>
      BY <2>4, <3>2, EffectKeepsCerts DEF StepFails, CertInv
    <3> QED
      BY <3>1, <3>2
  <2> QED
    BY <1>7, <2>1, <2>2, <2>3, <2>4 DEF Operator
<1>8. CASE UNCHANGED vars
  BY <1>2, <1>8 DEF vars
<1> QED
  BY <1>4, <1>5, <1>6, <1>7, <1>8 DEF Next, Users

(* No certificate is lost, however often the space is created, where no    *)
(* setup outlives its resource, whichever operators work on it, die and    *)
(* lose answers: what is removed has been copied (internalCreate).         *)
THEOREM CertsKeptInTime == Spec /\ []Timely => []CertsAreKept
<1>1. Inv /\ CertInv /\ Timely /\ [Next]_vars => Inv' /\ CertInv'
  BY InvStep, CertStep
<1>2. CertInv => CertsAreKept
  BY DEF CertInv
<1> QED
  BY InvInit, CertInit, <1>1, <1>2, PTL DEF Spec

(* Nobody is late where the space is created once.                         *)
OneUid ==
  /\ uid <= 1
  /\ phase # "absent" => uid = 1
  /\ \A o \in Ops : op[o].pc # "none" => op[o].uid = 1

LEMMA OneUidStep ==
  ASSUME MaxUid = 1, Inv, OneUid, [Next]_vars
  PROVE  OneUid'
<1>0. TypeOK
  BY DEF Inv
<1>1. ASSUME Users PROVE OneUid'
  <2>1. op' = op
    BY <1>1 DEF Users, CreateSpace, ModifySpace, DeleteSpace, ForeignNamespace, DeleteNamespace,
                NamespaceGone
  <2>2. uid' <= 1 /\ (phase' # "absent" => uid' = 1)
    BY <1>0, <1>1 DEF Users, CreateSpace, ModifySpace, DeleteSpace, ForeignNamespace, DeleteNamespace,
                NamespaceGone, crVars, OneUid, TypeOK
  <2> QED
    BY <2>1, <2>2 DEF OneUid
<1>2. ASSUME NEW o \in Ops, Operator(o) PROVE OneUid'
  <2>1. uid' = uid /\ (phase' # "absent" => phase # "absent") /\ rv' \in Nat
    BY <1>0, <1>2 DEF Operator, New, RecordPhase, RecordFails, Skip, Perform, StepFails, Delete, Crash,
                      Lands, crVars, TypeOK
  <2>2. op[o] \in Runtime /\ (op[o].pc # "none" => op[o].uid = 1)
    BY <1>0, RuntimeType DEF OneUid
  <2>3. PICK r : Becomes(o, r) /\ (r.pc # "none" => r.uid = 1)
    <3>1. CASE New(o)
      <4>1. SetUp(Copy).uid = 1
        BY <1>0, <3>1, SetUpFacts DEF New, OneUid
      <4> QED
        BY <3>1, <4>1 DEF New, Becomes, Copy
    <3>2. CASE RecordPhase(o)
      <4>1. Rewritten(o).uid = op[o].uid /\ op[o].pc # "none"
        BY <1>0, <2>1, <3>2, RewrittenFacts DEF RecordPhase, Recording
      <4> QED
        BY <2>2, <3>2, <4>1 DEF RecordPhase, Becomes, Rewritten
    <3>3. ASSUME Becomes(o, Failed(op[o])), op[o].pc # "none"
          PROVE  \E r : Becomes(o, r) /\ (r.pc # "none" => r.uid = 1)
      BY <2>2, <3>3, FailedFacts
    <3>4. ASSUME Becomes(o, Advanced(op[o])), op[o].pc = "setup"
          PROVE  \E r : Becomes(o, r) /\ (r.pc # "none" => r.uid = 1)
      <4>1. op[o].at # 0
        BY <1>0, <3>4 DEF TypeOK, At
      <4> QED
        BY <2>2, <3>4, <4>1, AdvancedFacts
    <3>5. CASE RecordFails(o)
      BY <3>3, <3>5 DEF RecordFails, Recording, Becomes
    <3>6. CASE Skip(o) \/ Perform(o)
      BY <3>4, <3>6 DEF Skip, Perform, At, Becomes
    <3>7. CASE StepFails(o)
      BY <3>3, <3>4, <3>7 DEF StepFails, At, Becomes
    <3>8. CASE Delete(o) \/ Crash(o)
      <4>1. NoRuntime.pc = "none"
        BY NoRuntimeType
      <4>2. Becomes(o, NoRuntime)
        BY <3>8 DEF Delete, Crash, Becomes
      <4> QED
        BY <4>1, <4>2
    <3> QED
      BY <1>2, <3>1, <3>2, <3>5, <3>6, <3>7, <3>8 DEF Operator
  <2>4. op'[o] = r /\ \A q \in Ops : q # o => op'[q] = op[q]
    BY <1>0, <2>3, BecomesFacts
  <2> QED
    BY <2>1, <2>3, <2>4 DEF OneUid
<1>3. CASE UNCHANGED vars
  BY <1>3 DEF vars, OneUid
<1> QED
  BY <1>1, <1>2, <1>3 DEF Next

(* No certificate is lost where the space is created once, whichever       *)
(* operators work on it, die and lose answers (internalCreate). *)
THEOREM CertsKept ==
  ASSUME MaxUid = 1
  PROVE  Spec => []CertsAreKept
<1>1. Inv /\ OneUid /\ [Next]_vars => OneUid'
  BY OneUidStep
<1>2. Init => OneUid
  BY DEF Init, OneUid, NoRuntime
<1>3. Inv /\ OneUid => Timely
  BY DEF Inv, OneUid, Timely, PhaseInv, Sound, TypeOK, Runtime, At
<1> QED
  BY InvInit, InvStep, <1>1, <1>2, <1>3, CertsKeptInTime, PTL DEF Spec
=============================================================================
