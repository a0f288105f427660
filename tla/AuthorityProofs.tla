--------------------------- MODULE AuthorityProofs ---------------------------
(***************************************************************************)
(* Proofs about the modules that MCAuthority runs side by side: TenantRbac *)
(* (R), CsrfProof (C), ConsolePages (P) and TenantCreatePage (T).  They    *)
(* hold for every set of requests, members, roles, calls, processes and    *)
(* pages.                                                                  *)
(***************************************************************************)
EXTENDS MCAuthority, OwnershipProofs

-----------------------------------------------------------------------------
(* TenantCreatePage. *)

Visits == Operator \X Nat
KeyOf(by) == <<by[1], by[2], 0>>

CreateTypes ==
  /\ visit \in [Operator -> Nat] /\ sent \in [Operator -> Nat]
  /\ form \in [Operator -> [stage : T!Stages, body : T!Body]]

\* Every submission under way was made by a visit of its administrator, and
\* the last one holds what the form shows.
Submitted ==
  \A q \in wire :
    /\ q.by \in Visits /\ q.key = KeyOf(q.by) /\ q.body \in T!Body
    /\ q.n \in Nat /\ q.n < sent[q.by[1]]
    /\ q.n + 1 = sent[q.by[1]] => q.body = form[q.by[1]].body

\* Every tenant bears the key of the visit that made it.
Made ==
  /\ \A t \in tenants : /\ t = [body |-> t.body, key |-> KeyOf(t.by), by |-> t.by, status |-> t.status]
                        /\ t.by \in Visits /\ t.status \in {"provisioning", "active"}
  /\ \A t, u \in tenants : t.by = u.by => t = u

\* A page that goes on, or has gone, has a tenant of its own.
Arrived ==
  \A a \in Operator : form[a].stage \in {"created", "status", "shown", "missing"} =>
    \E t \in tenants : /\ t.by = <<a, visit[a]>> /\ t.body = form[a].body
                       /\ form[a].stage = "missing" => t.status = "active"

CreateInv == CreateTypes /\ Submitted /\ Made /\ Arrived

\* Visits and their keys tell each other apart.
LEMMA KeysTellVisits ==
  ASSUME NEW v \in Visits, NEW w \in Visits
  PROVE  KeyOf(v) = KeyOf(w) <=> v = w
<1>1. v = <<v[1], v[2]>> /\ w = <<w[1], w[2]>>
  BY DEF Visits
<1> QED
  BY <1>1 DEF KeyOf

LEMMA CreateStarts == T!Init => CreateInv
<1>1. \E body : body \in T!Body
  <2>1. PICK s \in NewSlug, o \in NewOwner : TRUE
    BY AuthorityAssumption
  <2>2. [slug |-> s, owner |-> o] \in T!Body
    BY DEF T!Body
  <2> QED
    BY <2>2
<1>2. (CHOOSE body \in T!Body : TRUE) \in T!Body
  BY <1>1
<1>3. ASSUME T!Init PROVE CreateTypes
  BY <1>2, <1>3 DEF T!Init, T!Stages, CreateTypes
<1>4. ASSUME T!Init PROVE Submitted /\ Made /\ Arrived
  BY <1>4 DEF T!Init, Submitted, Made, Arrived
<1> QED
  BY <1>3, <1>4 DEF CreateInv

LEMMA SubmitStep ==
  ASSUME CreateInv, NEW a \in Operator, NEW body \in T!Body, T!Submit(a, body)
  PROVE  CreateInv'
<1> USE DEF CreateInv, T!Submit
<1>1. CreateTypes'
  BY DEF CreateTypes, T!Stages
<1>2. Submitted'
  <2>1. \A x \in Operator : /\ sent'[x] = IF x = a THEN sent[x] + 1 ELSE sent[x]
                            /\ x # a => form'[x] = form[x]
                            /\ form'[a].body = body
    BY DEF CreateTypes
  <2>2. \A q \in wire : q.by[1] \in Operator
    BY DEF Submitted, Visits
  <2>3. <<a, visit[a]>> \in Visits /\ sent[a] \in Nat
    BY DEF CreateTypes, Visits
  <2>4. ASSUME NEW q \in wire
        PROVE  /\ q.by \in Visits /\ q.key = KeyOf(q.by) /\ q.body \in T!Body
               /\ q.n \in Nat /\ q.n < sent'[q.by[1]]
               /\ q.n + 1 = sent'[q.by[1]] => q.body = form'[q.by[1]].body
    BY <2>1, <2>2 DEF Submitted, CreateTypes
  <2>5. ASSUME NEW q, q = [by |-> <<a, visit[a]>>, n |-> sent[a],
                           key |-> T!IdempotencyKey(a), body |-> body]
        PROVE  /\ q.by \in Visits /\ q.key = KeyOf(q.by) /\ q.body \in T!Body
               /\ q.n \in Nat /\ q.n < sent'[q.by[1]]
               /\ q.n + 1 = sent'[q.by[1]] => q.body = form'[q.by[1]].body
    BY <2>1, <2>3, <2>5 DEF T!IdempotencyKey, KeyOf
  <2> QED
    BY <2>4, <2>5 DEF Submitted, T!Body
<1>3. Made' /\ Arrived'
  BY DEF Made, Arrived, CreateTypes
<1> QED
  BY <1>1, <1>2, <1>3

\* Served: a visit that has its tenant gets the same one again.
LEMMA ServeStep ==
  ASSUME CreateInv, NEW q \in wire, T!Serve(q)
  PROVE  CreateInv'
<1> USE DEF CreateInv
<1> DEFINE made == {t \in tenants : t.key = q.key}
           taken == \E t \in tenants : t.body.slug = q.body.slug
           ok == IF made = {} THEN ~taken ELSE \E t \in made : t.body = q.body
           new == [body |-> q.body, key |-> q.key, by |-> q.by, status |-> "provisioning"]
           a == q.by[1]
<1>1. /\ wire' = wire \ {q} /\ visit' = visit /\ sent' = sent
      /\ tenants' = IF ok /\ made = {} THEN tenants \cup {new} ELSE tenants
      /\ form' = IF T!Awaits(q)
                 THEN [form EXCEPT ![a].stage = IF ok THEN "created" ELSE "editing"]
                 ELSE form
  BY DEF T!Serve
<1>2. q.by \in Visits /\ q.key = KeyOf(q.by) /\ a \in Operator /\ q.by = <<a, q.by[2]>>
  BY DEF Submitted, Visits
<1>3. made = {t \in tenants : t.by = q.by}
  BY <1>2, KeysTellVisits DEF Made
<1>4. CreateTypes'
  BY <1>1, <1>2 DEF CreateTypes, T!Stages
<1>5. \A x \in Operator : form'[x].body = form[x].body
  BY <1>1, <1>2 DEF CreateTypes
<1>6. Submitted'
  <2>1. \A p \in wire : p.by[1] \in Operator
    BY DEF Submitted, Visits
  <2> QED
    BY <1>1, <1>5, <2>1 DEF Submitted, T!Body
<1>7. Made'
  BY <1>1, <1>2, <1>3 DEF Made
<1>8. Arrived'
  <2>1. SUFFICES ASSUME NEW x \in Operator,
                        form'[x].stage \in {"created", "status", "shown", "missing"}
                 PROVE  \E t \in tenants' :
                          /\ t.by = <<x, visit[x]>> /\ t.body = form'[x].body
                          /\ form'[x].stage = "missing" => t.status = "active"
    BY <1>1 DEF Arrived
  <2>2. CASE form'[x] = form[x]
    BY <1>1, <2>1, <2>2 DEF Arrived
  <2>3. CASE form'[x] # form[x]
    <3>1. T!Awaits(q) /\ x = a /\ ok /\ form'[x].stage = "created"
      BY <1>1, <1>2, <2>1, <2>3 DEF CreateTypes
    <3>2. q.by = <<x, visit[x]>> /\ q.n + 1 = sent[q.by[1]]
      BY <3>1 DEF T!Awaits
    <3>3. q.body = form[x].body
      BY <3>1, <3>2 DEF Submitted
    <3>4. \E t \in tenants' : t.by = q.by /\ t.body = q.body
      <4>1. CASE made = {}
        <5>1. new \in tenants' /\ new.by = q.by /\ new.body = q.body
          BY <1>1, <3>1, <4>1
        <5> QED
          BY <5>1
      <4>2. CASE made # {}
        <5>1. PICK t \in made : t.body = q.body
          BY <3>1, <4>2
        <5>2. t \in tenants' /\ t.by = q.by
          BY <1>1, <1>3, <4>2
        <5> QED
          BY <5>1, <5>2
      <4> QED
        BY <4>1, <4>2
    <3> QED
      BY <1>5, <3>1, <3>2, <3>3, <3>4
  <2> QED
    BY <2>2, <2>3
<1> QED
  BY <1>4, <1>6, <1>7, <1>8

\* The page moves on, gives up, starts anew or loads the status.
LEMMA PageStep ==
  ASSUME CreateInv, NEW a \in Operator, T!Fails(a) \/ T!Leaves(a) \/ T!Visit(a) \/ T!Load(a)
  PROVE  CreateInv'
<1> USE DEF CreateInv
<1>1. /\ wire' = wire /\ sent' = sent /\ tenants' = tenants
      /\ \A x \in Operator : x # a => form'[x] = form[x] /\ visit'[x] = visit[x]
      /\ form'[a].body = form[a].body
  BY DEF T!Fails, T!Leaves, T!Visit, T!Load, CreateTypes
<1>2. CreateTypes'
  BY DEF T!Fails, T!Leaves, T!Visit, T!Load, CreateTypes, T!Stages
<1>3. Submitted'
  <2>1. \A p \in wire : p.by[1] \in Operator
    BY DEF Submitted, Visits
  <2> QED
    BY <1>1, <2>1 DEF Submitted, T!Body
<1>4. Made'
  BY <1>1 DEF Made
<1>5. Arrived'
  <2>1. ASSUME NEW x \in Operator, x # a,
               form'[x].stage \in {"created", "status", "shown", "missing"}
        PROVE  \E t \in tenants' :
                 /\ t.by = <<x, visit'[x]>> /\ t.body = form'[x].body
                 /\ form'[x].stage = "missing" => t.status = "active"
    BY <1>1, <2>1 DEF Arrived
  <2>2. ASSUME form'[a].stage \in {"created", "status", "shown", "missing"}
        PROVE  \E t \in tenants' :
                 /\ t.by = <<a, visit'[a]>> /\ t.body = form'[a].body
                 /\ form'[a].stage = "missing" => t.status = "active"
    <3>1. CASE T!Fails(a) \/ T!Visit(a)
      BY <2>2, <3>1 DEF T!Fails, T!Visit, CreateTypes
    <3>2. CASE T!Leaves(a)
      BY <1>1, <3>2 DEF T!Leaves, CreateTypes, Arrived
    <3>3. CASE T!Load(a)
      <4>1. PICK t \in tenants : t.by = <<a, visit[a]>> /\ t.body = form[a].body
        BY <3>3 DEF T!Load, Arrived
      <4>2. form'[a].stage = "missing" => t.status = "active"
        BY <3>3, <4>1 DEF T!Load, CreateTypes, Made
      <4> QED
        BY <1>1, <3>3, <4>1, <4>2 DEF T!Load
    <3> QED
      BY <3>1, <3>2, <3>3
  <2> QED
    BY <2>1, <2>2 DEF Arrived
<1> QED
  BY <1>2, <1>3, <1>4, <1>5

LEMMA OwnerAcceptsStep ==
  ASSUME CreateInv, NEW t \in tenants, T!OwnerAccepts(t)
  PROVE  CreateInv'
<1> USE DEF CreateInv
<1> DEFINE new == [t EXCEPT !.status = "active"]
<1>1. /\ tenants' = (tenants \ {t}) \cup {new}
      /\ visit' = visit /\ sent' = sent /\ form' = form /\ wire' = wire
  BY DEF T!OwnerAccepts
<1>2. new = [body |-> t.body, key |-> KeyOf(t.by), by |-> t.by, status |-> "active"]
  BY DEF Made
<1> HIDE DEF new
<1>3. CreateTypes' /\ Submitted'
  BY <1>1 DEF CreateTypes, Submitted, T!Body
<1>4. Made'
  BY <1>1, <1>2 DEF Made
<1>5. Arrived'
  <2>1. SUFFICES ASSUME NEW a \in Operator,
                        form[a].stage \in {"created", "status", "shown", "missing"}
                 PROVE  \E u \in tenants' :
                          /\ u.by = <<a, visit[a]>> /\ u.body = form[a].body
                          /\ form[a].stage = "missing" => u.status = "active"
    BY <1>1 DEF Arrived
  <2>2. PICK u \in tenants : /\ u.by = <<a, visit[a]>> /\ u.body = form[a].body
                             /\ form[a].stage = "missing" => u.status = "active"
    BY <2>1 DEF Arrived
  <2> QED
    BY <1>1, <1>2, <2>2
<1> QED
  BY <1>3, <1>4, <1>5

LEMMA CreateSteps == CreateInv /\ [T!Next]_create => CreateInv'
<1>1. SUFFICES ASSUME CreateInv, [T!Next]_create PROVE CreateInv'
  OBVIOUS
<1>2. CASE UNCHANGED create
  BY <1>1, <1>2 DEF create, CreateInv, CreateTypes, Submitted, Made, Arrived, T!Body
<1>3. CASE T!Next
  BY <1>1, <1>3, SubmitStep, PageStep, ServeStep, OwnerAcceptsStep DEF T!Next
<1> QED
  BY <1>1, <1>2, <1>3

\* What each of the modules does in a step of the whole.
LEMMA EachItsOwn ==
  ASSUME [AuthorityNext]_<<part, vars, rbac, csrf, pages, create>>
  PROVE  /\ [Next]_vars /\ [R!Next]_rbac /\ [C!Next]_csrf /\ [P!Next]_pages /\ [T!Next]_create
BY DEF AuthorityNext

(* However many administrators submit however often, a visit makes one     *)
(* tenant, and its page leaves for that one only.                          *)
THEOREM VisitMakesOneTenant == AuthoritySpec => []AVisitMakesOneTenant
<1>1. AuthorityInit => CreateInv
  BY CreateStarts DEF AuthorityInit
<1>2. CreateInv /\ [AuthorityNext]_<<part, vars, rbac, csrf, pages, create>> => CreateInv'
  BY EachItsOwn, CreateSteps
<1>3. CreateInv => AVisitMakesOneTenant
  BY DEF CreateInv, Made, Arrived, AVisitMakesOneTenant, T!AVisitMakesOneTenant
<1> QED
  BY <1>1, <1>2, <1>3, PTL DEF AuthoritySpec

-----------------------------------------------------------------------------
(* CsrfProof. *)

\* A time lies in its window.
LEMMA Division ==
  ASSUME NEW x \in Nat, NEW w \in Nat \ {0}
  PROVE  x \div w \in Int /\ w * (x \div w) <= x /\ x < w * (x \div w) + w
OBVIOUS

\* Two times in the same window, or in a window and the next.
LEMMA Windows ==
  ASSUME NEW w \in Nat \ {0}, NEW x \in Nat, NEW y \in Nat, NEW b \in Int, NEW d \in Int,
         w * b <= x, x < w * b + w, w * d <= y, y < w * d + w
  PROVE  /\ b \in {d, d - 1} => y - x > -w /\ y - x < 2 * w
         /\ b \notin {d, d - 1} => y - x \notin 0 .. w
<1>1. CASE b = d
  BY <1>1
<1>2. CASE b = d - 1
  <2>1. w * d = w * b + w
    BY <1>2
  <2> QED
    BY <1>2, <2>1
<1>3. CASE b >= d + 1
  <2>1. w * b >= w * (d + 1)
    BY <1>3
  <2>2. w * (d + 1) = w * d + w
    OBVIOUS
  <2> QED
    BY <1>3, <2>1, <2>2
<1>4. CASE d >= b + 2
  <2>1. w * d >= w * (b + 2)
    BY <1>4
  <2>2. w * (b + 2) = w * b + 2 * w
    OBVIOUS
  <2> QED
    BY <1>4, <2>1, <2>2
<1> QED
  BY <1>1, <1>2, <1>3, <1>4

\* The proof a call is given when the issuer's clock shows t.
ProofAt(c, t) ==
  CASE command[c].kind \in C!Identity -> C!IdentityProof(command[c].kind, command[c].host, t)
    [] command[c].kind = "session" -> C!SessionProof(c)
    [] command[c].kind = "login" -> C!BucketProof(t \div Window, command[c].host)

CsrfTypes ==
  /\ now \in Nat /\ skew \in [Process -> Nat]
  /\ listed \subseteq Console /\ allowed \in [Process -> SUBSET Console]
  /\ \E S : command \in [Command -> S]
  /\ \E S : proof \in [Command -> S]
  /\ stage \in [Command -> {"new", "fetch", "post", "ok", "forbidden", "signedOut"}]
  /\ issue \in [Command -> [at : Nat, by : Process \cup {C!Nothing}]]
  /\ verdict \in [Command -> [at : Nat, by : Process \cup {C!Nothing}, known : BOOLEAN]]

\* A call on its way has a kind, and then the proof it was issued.
Issued ==
  \A c \in Command :
    /\ stage[c] # "new" => command[c].kind \in C!Kinds
    /\ stage[c] = "post" =>
         /\ issue[c].by \in Process
         /\ proof[c] = ProofAt(c, issue[c].at + skew[issue[c].by])

\* Only a call that is over has a verdict.
Judged ==
  \A c \in Command : verdict[c].by # C!Nothing => stage[c] \in {"ok", "forbidden", "signedOut"}

\* The verdict on the proof of one call, by process a.
Lives(c) ==
  /\ stage[c] = "ok" =>
       CASE command[c].kind \in C!Identity -> C!Age(c) \in 0 .. Lifetime
         [] command[c].kind = "login"      -> C!Age(c) > -Window /\ C!Age(c) < 2 * Window
         [] command[c].kind = "session"    -> verdict[c].known
  /\ stage[c] = "forbidden" =>
       CASE command[c].kind \in C!Identity -> C!Age(c) \notin 0 .. Lifetime
         [] command[c].kind = "login"      -> verdict[c].known => C!Age(c) \notin 0 .. Window
         [] command[c].kind = "session"    -> ~verdict[c].known

Due == \A c \in Command : verdict[c].by # C!Nothing => Lives(c)

CsrfInv == CsrfTypes /\ Issued /\ Judged /\ Due

\* A process finds a proof good for as long as it should.
LEMMA VerdictIsDue ==
  ASSUME CsrfInv, NEW c \in Command, stage[c] = "post", NEW a \in Process
  PROVE  LET age == C!Clock(a) - (issue[c].at + skew[issue[c].by])
             known == command[c].host \in allowed[a]
         IN  /\ C!Verifies(c, a) =>
                  CASE command[c].kind \in C!Identity -> age \in 0 .. Lifetime
                    [] command[c].kind = "login"      -> age > -Window /\ age < 2 * Window
                    [] command[c].kind = "session"    -> known
             /\ ~C!Verifies(c, a) =>
                  CASE command[c].kind \in C!Identity -> age \notin 0 .. Lifetime
                    [] command[c].kind = "login"      -> known => age \notin 0 .. Window
                    [] command[c].kind = "session"    -> ~known
<1> DEFINE x == issue[c].at + skew[issue[c].by]
           y == C!Clock(a)
           kind == command[c].kind
           host == command[c].host
<1>1. x \in Nat /\ y \in Nat
  BY DEF CsrfInv, CsrfTypes, Issued, C!Clock
<1>2. kind \in C!Kinds /\ proof[c] = ProofAt(c, x)
  BY DEF CsrfInv, Issued
<1>3. Window \in Nat \ {0} /\ Lifetime \in Nat
  BY AuthorityAssumption
<1>4. /\ kind \in C!Identity => kind \notin {"login", "session"}
      /\ kind = "login" => kind # "session"
  BY DEF C!Identity
<1>5. CASE kind \in C!Identity
  <2>1. proof[c] = C!IdentityProof(kind, host, x)
    BY <1>2, <1>4, <1>5 DEF ProofAt
  <2>2. C!Verifies(c, a) <=> \E at \in y - Lifetime .. y : proof[c] = C!IdentityProof(kind, host, at)
    BY <1>5 DEF C!Verifies, C!VerifiesIdentity
  <2> HIDE DEF x, y
  <2>3. C!Verifies(c, a) <=> x \in y - Lifetime .. y
    BY <2>1, <2>2 DEF C!IdentityProof
  <2>4. x \in y - Lifetime .. y <=> y - x \in 0 .. Lifetime
    BY <1>1, <1>3
  <2> QED
    BY <1>4, <1>5, <2>3, <2>4 DEF x, y
<1>6. CASE kind = "session"
  <2>1. proof[c] = C!SessionProof(c)
    BY <1>2, <1>4, <1>6 DEF ProofAt
  <2>2. C!Verifies(c, a) <=> host \in allowed[a]
    BY <1>4, <1>6, <2>1 DEF C!Verifies, C!VerifiesSession
  <2> QED
    BY <1>4, <1>6, <2>2
<1>7. CASE kind = "login"
  <2> DEFINE b == x \div Window
             d == y \div Window
  <2>1. proof[c] = C!BucketProof(b, host)
    BY <1>2, <1>4, <1>7 DEF ProofAt
  <2>2. C!Verifies(c, a) <=> host \in allowed[a] /\ \E e \in {d, d - 1} : proof[c] = C!BucketProof(e, host)
    BY <1>4, <1>7 DEF C!Verifies, C!VerifiesSession, C!Bucket
  <2> HIDE DEF b, d, x, y
  <2>3. C!Verifies(c, a) <=> host \in allowed[a] /\ b \in {d, d - 1}
    BY <2>1, <2>2 DEF C!BucketProof
  <2>4. /\ b \in Int /\ Window * b <= x /\ x < Window * b + Window
        /\ d \in Int /\ Window * d <= y /\ y < Window * d + Window
    BY <1>1, <1>3, Division DEF b, d
  <2>5. /\ b \in {d, d - 1} => y - x > -Window /\ y - x < 2 * Window
        /\ b \notin {d, d - 1} => y - x \notin 0 .. Window
    BY <1>1, <1>3, <2>4, Windows
  <2> QED
    BY <1>4, <1>7, <2>3, <2>5 DEF x, y
<1> QED
  BY <1>2, <1>5, <1>6, <1>7 DEF C!Kinds

LEMMA CsrfStarts == C!Init => CsrfInv
<1> SUFFICES ASSUME C!Init PROVE CsrfInv
  OBVIOUS
<1>1. CsrfTypes
  <2>1. /\ now \in Nat /\ skew \in [Process -> Nat]
        /\ listed \subseteq Console /\ allowed \in [Process -> SUBSET Console]
    BY AuthorityAssumption DEF C!Init
  <2>2. command \in [Command -> {[kind |-> "login", host |-> C!Nothing, origin |-> C!Nothing]}]
    BY DEF C!Init
  <2>3. proof \in [Command -> {C!Nothing}]
    BY DEF C!Init
  <2>4. /\ issue \in [Command -> [at : Nat, by : Process \cup {C!Nothing}]]
        /\ verdict \in [Command -> [at : Nat, by : Process \cup {C!Nothing}, known : BOOLEAN]]
        /\ stage \in [Command -> {"new", "fetch", "post", "ok", "forbidden", "signedOut"}]
    BY DEF C!Init
  <2> QED
    BY <2>1, <2>2, <2>3, <2>4 DEF CsrfTypes
<1>2. \A c \in Command : stage[c] = "new" /\ verdict[c].by = C!Nothing
  BY DEF C!Init
<1> QED
  BY <1>1, <1>2 DEF CsrfInv, Issued, Judged, Due

\* A page sends its change.
LEMMA SendStep ==
  ASSUME CsrfInv, NEW c \in Command, NEW kind \in CommandAsked, NEW host, NEW origin,
         C!Send(c, kind, host, origin)
  PROVE  CsrfInv'
<1> DEFINE new == [kind |-> kind, host |-> host, origin |-> origin]
<1>1. /\ stage[c] = "new" /\ command' = [command EXCEPT ![c] = new]
      /\ \E l \in {"fetch", "forbidden"} : stage' = [stage EXCEPT ![c] = l]
      /\ UNCHANGED <<now, skew, listed, allowed, proof, issue, verdict>>
  BY DEF C!Send, C!Go
<1> HIDE DEF new
<1>2. CsrfTypes'
  <2>1. PICK S : command \in [Command -> S]
    BY DEF CsrfInv, CsrfTypes
  <2>2. command' \in [Command -> S \cup {new}]
    BY <1>1, <2>1
  <2>3. stage' \in [Command -> {"new", "fetch", "post", "ok", "forbidden", "signedOut"}]
    BY <1>1 DEF CsrfInv, CsrfTypes
  <2> QED
    BY <1>1, <2>2, <2>3 DEF CsrfInv, CsrfTypes
<1>3. \A d \in Command : d # c => /\ command'[d] = command[d] /\ stage'[d] = stage[d]
                                  /\ Lives(d)' = Lives(d)
                                  /\ \A t : ProofAt(d, t)' = ProofAt(d, t)
  BY <1>1 DEF CsrfInv, CsrfTypes, Lives, C!Age, ProofAt, C!SessionProof
<1>4. command'[c].kind \in C!Kinds /\ stage'[c] \in {"fetch", "forbidden"}
  BY <1>1, AuthorityAssumption DEF CsrfInv, CsrfTypes, new
<1>5. Issued' /\ Judged'
  BY <1>1, <1>3, <1>4 DEF CsrfInv, Issued, Judged
<1>6. Due'
  BY <1>1, <1>3 DEF CsrfInv, Judged, Due
<1> QED
  BY <1>2, <1>5, <1>6 DEF CsrfInv

\* The console's back end fetches a proof.
LEMMA FetchStep ==
  ASSUME CsrfInv, NEW c \in Command, NEW a \in Process, C!Fetch(c, a)
  PROVE  CsrfInv'
<1>1. CASE C!Unknown(c)
  <2>1. /\ stage[c] = "fetch" /\ stage' = [stage EXCEPT ![c] = "signedOut"]
        /\ UNCHANGED <<now, skew, listed, allowed, command, proof, issue, verdict>>
    BY <1>1 DEF C!Fetch, C!Go
  <2>2. CsrfTypes'
    BY <2>1 DEF CsrfInv, CsrfTypes
  <2>3. /\ stage'[c] = "signedOut" /\ \A d \in Command : d # c => stage'[d] = stage[d]
        /\ \A d \in Command : \A t : ProofAt(d, t)' = ProofAt(d, t)
    BY <2>1 DEF CsrfInv, CsrfTypes, ProofAt, C!SessionProof
  <2>4. Issued' /\ Judged'
    BY <2>1, <2>3 DEF CsrfInv, Issued, Judged
  <2>5. Due'
    BY <2>1, <2>3 DEF CsrfInv, Judged, Due, Lives, C!Age
  <2> QED
    BY <2>2, <2>4, <2>5 DEF CsrfInv
<1>2. CASE ~C!Unknown(c)
  <2> DEFINE p == C!Issues(c, a)
             i == [at |-> now, by |-> a]
  <2>1. /\ stage[c] = "fetch" /\ stage' = [stage EXCEPT ![c] = "post"]
        /\ proof' = [proof EXCEPT ![c] = p] /\ issue' = [issue EXCEPT ![c] = i]
        /\ UNCHANGED <<now, skew, listed, allowed, command, verdict>>
    BY <1>2 DEF C!Fetch, C!Go
  <2>2. i \in [at : Nat, by : Process \cup {C!Nothing}] /\ i.at = now /\ i.by = a
    BY DEF CsrfInv, CsrfTypes
  <2>3. p = ProofAt(c, now + skew[a])
    <3>1. command[c].kind \in C!Kinds
      BY <2>1 DEF CsrfInv, Issued
    <3> QED
      BY <3>1 DEF C!Issues, ProofAt, C!Kinds, C!Identity, C!Clock, C!Bucket
  <2> HIDE DEF p, i
  <2>4. CsrfTypes'
    <3>1. PICK S : proof \in [Command -> S]
      BY DEF CsrfInv, CsrfTypes
    <3>2. proof' \in [Command -> S \cup {p}]
      BY <2>1, <3>1
    <3> QED
      BY <2>1, <2>2, <3>2 DEF CsrfInv, CsrfTypes
  <2>5. /\ stage'[c] = "post" /\ proof'[c] = p /\ issue'[c] = i
        /\ \A d \in Command : d # c => /\ stage'[d] = stage[d] /\ proof'[d] = proof[d]
                                       /\ issue'[d] = issue[d]
        /\ \A d \in Command : \A t : ProofAt(d, t)' = ProofAt(d, t)
    BY <2>1 DEF CsrfInv, CsrfTypes, ProofAt, C!SessionProof
  <2>6. Issued' /\ Judged'
    BY <2>1, <2>2, <2>3, <2>5 DEF CsrfInv, Issued, Judged
  <2>7. Due'
    BY <2>1, <2>5 DEF CsrfInv, Judged, Due, Lives, C!Age
  <2> QED
    BY <2>4, <2>6, <2>7 DEF CsrfInv
<1> QED
  BY <1>1, <1>2

\* A process judges the proof that came with the change.
LEMMA PostStep ==
  ASSUME CsrfInv, NEW c \in Command, NEW a \in Process, C!Post(c, a)
  PROVE  CsrfInv'
<1> DEFINE v == [at |-> now, by |-> a, known |-> command[c].host \in allowed[a]]
           l == IF C!Unknown(c) THEN "signedOut" ELSE IF C!Verifies(c, a) THEN "ok" ELSE "forbidden"
<1>1. /\ stage[c] = "post" /\ stage' = [stage EXCEPT ![c] = l]
      /\ verdict' = [verdict EXCEPT ![c] = v]
      /\ UNCHANGED <<now, skew, listed, allowed, command, proof, issue>>
  BY DEF C!Post, C!Go
<1>2. /\ v \in [at : Nat, by : Process \cup {C!Nothing}, known : BOOLEAN]
      /\ v.at = now /\ v.by = a /\ v.known = (command[c].host \in allowed[a])
  BY DEF CsrfInv, CsrfTypes
<1>3. /\ l \in {"ok", "forbidden", "signedOut"}
      /\ l = "ok" => C!Verifies(c, a)
      /\ l = "forbidden" => ~C!Verifies(c, a)
  OBVIOUS
<1> HIDE DEF v, l
<1>4. CsrfTypes'
  BY <1>1, <1>2, <1>3 DEF CsrfInv, CsrfTypes
<1>5. /\ stage'[c] = l /\ verdict'[c] = v
      /\ \A d \in Command : d # c => stage'[d] = stage[d] /\ verdict'[d] = verdict[d]
      /\ \A d \in Command : \A t : ProofAt(d, t)' = ProofAt(d, t)
  BY <1>1 DEF CsrfInv, CsrfTypes, ProofAt, C!SessionProof
<1>6. Issued' /\ Judged'
  BY <1>1, <1>3, <1>5 DEF CsrfInv, Issued, Judged
<1>7. C!Age(c)' = C!Clock(a) - (issue[c].at + skew[issue[c].by])
  <2>1. C!Age(c)' = now + skew[a] - issue[c].at - skew[issue[c].by]
    BY <1>1, <1>2, <1>5 DEF C!Age
  <2>2. /\ now \in Nat /\ skew[a] \in Nat /\ issue[c].at \in Nat /\ skew[issue[c].by] \in Nat
    BY <1>1 DEF CsrfInv, CsrfTypes, Issued
  <2> QED
    BY <2>1, <2>2 DEF C!Clock
<1>8. Lives(c)'
  <2> DEFINE age == C!Clock(a) - (issue[c].at + skew[issue[c].by])
             known == command[c].host \in allowed[a]
  <2>1. /\ stage'[c] = l /\ command'[c] = command[c] /\ verdict'[c].known = known
        /\ C!Age(c)' = age
    BY <1>1, <1>2, <1>5, <1>7
  <2>2. /\ l = "ok" =>
             CASE command[c].kind \in C!Identity -> age \in 0 .. Lifetime
               [] command[c].kind = "login"      -> age > -Window /\ age < 2 * Window
               [] command[c].kind = "session"    -> known
        /\ l = "forbidden" =>
             CASE command[c].kind \in C!Identity -> age \notin 0 .. Lifetime
               [] command[c].kind = "login"      -> known => age \notin 0 .. Window
               [] command[c].kind = "session"    -> ~known
    BY <1>1, <1>3, VerdictIsDue
  <2> HIDE DEF age, known
  <2> QED
    BY <2>1, <2>2 DEF Lives
<1>9. Due'
  BY <1>1, <1>5, <1>8 DEF CsrfInv, Due, Lives, C!Age
<1> QED
  BY <1>4, <1>6, <1>9 DEF CsrfInv

\* Time passes, sessions end, and processes learn of hosts: no proof changes.
LEMMA AroundStep ==
  ASSUME CsrfInv, UNCHANGED <<skew, command, stage, proof, issue, verdict>>,
         now' \in Nat, listed' \subseteq Console, allowed' \in [Process -> SUBSET Console]
  PROVE  CsrfInv'
<1>1. CsrfTypes'
  BY DEF CsrfInv, CsrfTypes
<1>2. \A d \in Command : \A t : ProofAt(d, t)' = ProofAt(d, t)
  BY DEF ProofAt, C!SessionProof
<1>3. Issued' /\ Judged'
  BY <1>2 DEF CsrfInv, Issued, Judged
<1>4. Due'
  BY DEF CsrfInv, Due, Lives, C!Age
<1> QED
  BY <1>1, <1>3, <1>4 DEF CsrfInv

LEMMA CsrfSteps == CsrfInv /\ [C!Next]_csrf => CsrfInv'
<1>1. SUFFICES ASSUME CsrfInv, [C!Next]_csrf PROVE CsrfInv'
  OBVIOUS
<1>2. CASE UNCHANGED csrf
  BY <1>1, <1>2, AroundStep DEF csrf, CsrfInv, CsrfTypes
<1>3. CASE C!Next
  <2>1. ASSUME NEW c \in Command, C!SessionEnds(c) PROVE CsrfInv'
    BY <1>1, <2>1, AroundStep DEF C!SessionEnds, CsrfInv, CsrfTypes
  <2>2. ASSUME NEW h \in Console, C!List(h) PROVE CsrfInv'
    BY <1>1, <2>2, AroundStep DEF C!List, CsrfInv, CsrfTypes
  <2>3. ASSUME NEW a \in Process, C!Restart(a) PROVE CsrfInv'
    BY <1>1, <2>3, AroundStep DEF C!Restart, CsrfInv, CsrfTypes
  <2>4. ASSUME C!Tick PROVE CsrfInv'
    <3>1. now' = now + 1 /\ UNCHANGED <<skew, listed, allowed, command, stage, proof, issue, verdict>>
      BY <2>4 DEF C!Tick
    <3>2. now' \in Nat /\ listed' \subseteq Console /\ allowed' \in [Process -> SUBSET Console]
      BY <1>1, <3>1 DEF CsrfInv, CsrfTypes
    <3> QED
      BY <1>1, <3>1, <3>2, AroundStep
  <2> QED
    BY <1>1, <1>3, <2>1, <2>2, <2>3, <2>4, SendStep, FetchStep, PostStep DEF C!Next
<1> QED
  BY <1>1, <1>2, <1>3

(* However far apart the clocks of the processes are and wherever the      *)
(* boundary of a window falls, a proof lives its time.                     *)
THEOREM ProofsLiveOn == AuthoritySpec => []ProofsLiveTheirTime
<1>1. AuthorityInit => CsrfInv
  BY CsrfStarts DEF AuthorityInit
<1>2. CsrfInv /\ [AuthorityNext]_<<part, vars, rbac, csrf, pages, create>> => CsrfInv'
  BY EachItsOwn, CsrfSteps
<1>3. CsrfInv => ProofsLiveTheirTime
  BY DEF CsrfInv, Due, Lives, ProofsLiveTheirTime, C!ProofsLiveTheirTime
<1> QED
  BY <1>1, <1>2, <1>3, PTL DEF AuthoritySpec

-----------------------------------------------------------------------------
(* TenantRbac. *)

\* What a request is about where it is; its role exists.
Stages ==
  \A r \in Edit :
    /\ editPc[r] = "look" => edit[r].kind \in R!Versioned
    /\ editPc[r] = "role" => edit[r].kind # "create"
    /\ editPc[r] = "target" => edit[r].kind \in {"grant", "revoke"}
    /\ editPc[r] \in {"list", "holders"} => edit[r].kind \in {"replace", "archive"}
    /\ editPc[r] = "write" => edit[r].kind \in {"create", "update", "grant", "revoke"}
    /\ editPc[r] # "new" /\ edit[r].kind # "create" => customRole[edit[r].role].status # "none"

\* A role is locked by one request.
RoleLocks ==
  \A r, q \in Edit :
    r # q /\ R!HasRole(r) /\ R!HasRole(q) => edit[r].role # edit[q].role

\* A member locked for a change is not the author of another change under way.
MemberLocks ==
  /\ \A r, q \in Edit : r # q /\ R!Started(r) => edit[r].actor \notin locked[q]
  /\ \A q \in Edit : editPc[q] = "write" /\ edit[q].kind \in {"grant", "revoke"} =>
       edit[q].target \in locked[q]

\* The author's membership stays as it was when the transaction began.
Exact ==
  \A r \in Edit : R!Started(r) => context[r].version = editor[edit[r].actor].version

\* Whoever holds the role is found: grants of it wait.
FoundAll ==
  \A r \in Edit : editPc[r] = "holders" =>
    \A m \in R!Holders(edit[r].role) :
      edit[r].kind = "archive" \/ editor[m].status = "active" => m \in found[r]

\* A role with the version its author saw has the keys he saw.
SeenAsOf ==
  \A r \in Edit : editPc[r] # "new" /\ edit[r].kind \in R!Versioned =>
    LET row == customRole[edit[r].role] IN
      /\ seen[r].version <= row.version
      /\ editPc[r] # "look" /\ seen[r].version = row.version => seen[r].keys = row.keys
      /\ R!HasRole(r) => seen[r].version = row.version

\* An authorization whose version is current was built from what is current.
Authorized ==
  \A r \in Edit : editPc[r] \notin {"new", "look", "guard", "refused"} =>
    LET a == edit[r].actor IN
      /\ context[r].version <= editor[a].version
      /\ context[r].version = editor[a].version =>
           editor[a].status = "active" /\ context[r] = R!Authority(a)

RbacInv == /\ R!TypeOK /\ Stages /\ RoleLocks /\ MemberLocks /\ Exact /\ FoundAll
           /\ SeenAsOf /\ Authorized /\ ArchivedRolesAreHeldByNobody

(* What the statements of a request do. *)

Unmoved == UNCHANGED <<customRole, holds, editor, edit, seen, context>>

\* A request is over without a change, or it fails, and lets go of its locks.
Finished(r) ==
  /\ editPc[r] = "enter" \/ R!Started(r)
  /\ \E l \in {"ok", "refused", "conflict", "failed"} : editPc' = [editPc EXCEPT ![r] = l]
  /\ locked' = [locked EXCEPT ![r] = {}]
  /\ Unmoved /\ found' = found

Entered(r) ==
  /\ editPc[r] = "enter" /\ editPc' = [editPc EXCEPT ![r] = "recheck"]
  /\ R!Shareable(r, edit[r].actor)
  /\ editor[edit[r].actor].version = context[r].version
  /\ Unmoved /\ UNCHANGED <<found, locked>>

Checked(r) ==
  /\ editPc[r] = "recheck"
  /\ editPc' = [editPc EXCEPT ![r] = IF edit[r].kind = "create" THEN "write" ELSE "role"]
  /\ Unmoved /\ UNCHANGED <<found, locked>>

RoleLocked(r) ==
  /\ editPc[r] = "role" /\ R!RoleFree(r, edit[r].role)
  /\ edit[r].kind \in R!Versioned => seen[r].version = customRole[edit[r].role].version
  /\ \E l \in {"write", "list", "target"} :
       /\ editPc' = [editPc EXCEPT ![r] = l]
       /\ l = "write" <=> edit[r].kind = "update"
       /\ l = "list" <=> edit[r].kind \in {"replace", "archive"}
  /\ Unmoved /\ UNCHANGED <<found, locked>>

TargetLocked(r) ==
  /\ editPc[r] = "target" /\ editPc' = [editPc EXCEPT ![r] = "write"]
  /\ R!Lockable(r, edit[r].target)
  /\ locked' = [locked EXCEPT ![r] = @ \union {edit[r].target}]
  /\ Unmoved /\ found' = found

LEMMA RequestEffects ==
  ASSUME NEW r \in Edit
  PROVE  /\ R!Enter(r) => Entered(r) \/ Finished(r)
         /\ R!Recheck(r) => Checked(r) \/ Finished(r)
         /\ R!LockRole(r) => RoleLocked(r) \/ Finished(r)
         /\ R!LockTarget(r) => TargetLocked(r) \/ Finished(r)
         /\ R!NameConflict(r) \/ R!Fail(r) => Finished(r)
<1> USE DEF Unmoved, R!Go, R!tables, R!memory
<1>1. ASSUME NEW l \in {"ok", "refused", "conflict", "failed"}, R!Stop(r, l),
             editPc[r] = "enter" \/ R!Started(r)
      PROVE  Finished(r)
  BY <1>1 DEF R!Stop, R!End, Finished
<1>2. R!Enter(r) => Entered(r) \/ Finished(r)
  BY <1>1 DEF R!Enter, R!Step, Entered
<1>3. R!Recheck(r) => Checked(r) \/ Finished(r)
  BY <1>1 DEF R!Recheck, R!Started, R!Step, Checked
<1>4. ASSUME R!LockRole(r) PROVE RoleLocked(r) \/ Finished(r)
  <2> DEFINE x == edit[r].role
  <2>1. editPc[r] = "role" /\ R!RoleFree(r, x) /\ R!Started(r)
    BY <1>4 DEF R!LockRole, R!Started
  <2>2. \/ \E l \in {"ok", "refused", "conflict", "failed"} : R!Stop(r, l)
        \/ ~R!Stale(r) /\ R!Step(r, R!AfterRole(r))
    BY <1>4 DEF R!LockRole
  <2>3. ASSUME ~R!Stale(r), R!Step(r, R!AfterRole(r)) PROVE RoleLocked(r)
    <3>1. /\ R!AfterRole(r) \in {"write", "list", "target"}
          /\ R!AfterRole(r) = "write" <=> edit[r].kind = "update"
          /\ R!AfterRole(r) = "list" <=> edit[r].kind \in {"replace", "archive"}
      <4>1. CASE edit[r].kind = "update"
        BY <4>1 DEF R!AfterRole
      <4>2. CASE edit[r].kind \in {"replace", "archive"}
        BY <4>2 DEF R!AfterRole
      <4>3. CASE edit[r].kind \notin {"update", "replace", "archive"}
        BY <4>3 DEF R!AfterRole
      <4> QED
        BY <4>1, <4>2, <4>3
    <3> HIDE DEF R!AfterRole
    <3> QED
      BY <2>1, <2>3, <3>1 DEF R!Stale, R!Step, RoleLocked
  <2> QED
    BY <1>1, <2>1, <2>2, <2>3
<1>5. ASSUME R!LockTarget(r) PROVE TargetLocked(r) \/ Finished(r)
  <2>1. editPc[r] = "target" /\ R!Lockable(r, edit[r].target) /\ R!Started(r)
    BY <1>5 DEF R!LockTarget, R!Started
  <2> DEFINE t == edit[r].target
             held == edit[r].role \in holds[t]
             kind == edit[r].kind
  <2>2. \/ \E l \in {"ok", "refused"} : R!Stop(r, l)
        \/ /\ R!Go(r, "write") /\ R!Lock(r, t)
           /\ UNCHANGED <<customRole, holds, editor, edit, seen, context, found>>
    <3>1. CASE kind = "grant" /\ editor[t].status # "active"
      BY <1>5, <3>1 DEF R!LockTarget
    <3>2. CASE kind = "grant" /\ editor[t].status = "active" /\ held
      BY <1>5, <3>2 DEF R!LockTarget
    <3>3. CASE kind = "revoke" /\ ~held
      BY <1>5, <3>3 DEF R!LockTarget
    <3>4. CASE /\ ~(kind = "grant" /\ editor[t].status # "active")
               /\ ~(kind = "grant" /\ editor[t].status = "active" /\ held)
               /\ ~(kind = "revoke" /\ ~held)
      BY <1>5, <3>4 DEF R!LockTarget
    <3> QED
      BY <3>1, <3>2, <3>3, <3>4
  <2> QED
    BY <1>1, <2>1, <2>2 DEF R!Lock, TargetLocked
<1>6. R!NameConflict(r) \/ R!Fail(r) => Finished(r)
  BY <1>1 DEF R!NameConflict, R!Fail, R!Started
<1> QED
  BY <1>2, <1>3, <1>4, <1>5, <1>6

\* A request proceeds by its kind.
LEMMA StagesStep ==
  ASSUME R!TypeOK, Stages, [R!Next]_rbac
  PROVE  Stages'
<1> USE DEF R!TypeOK, R!Go, R!End, R!Lock, R!tables, R!memory
<1>1. ASSUME NEW r \in Edit, R!LookAtRow(r) PROVE Stages'
  BY <1>1 DEF R!LookAtRow, Unmoved, Stages, R!Started, R!Versioned, R!Row, R!Kinds
<1>2. ASSUME NEW r \in Edit, R!LookAtKeys(r) PROVE Stages'
  BY <1>2 DEF R!LookAtKeys, Unmoved, Stages, R!Started, R!Versioned, R!Row, R!Kinds
<1>3. ASSUME NEW r \in Edit, R!Guard(r) PROVE Stages'
  BY <1>3 DEF R!Guard, Unmoved, Stages, R!Started, R!Versioned, R!Row, R!Kinds
<1>4. ASSUME NEW r \in Edit, Entered(r) PROVE Stages'
  BY <1>4 DEF Entered, Unmoved, Stages, R!Started, R!Versioned, R!Row, R!Kinds
<1>5. ASSUME NEW r \in Edit, Checked(r) PROVE Stages'
  BY <1>5 DEF Checked, Unmoved, Stages, R!Started, R!Versioned, R!Row, R!Kinds
<1>6. ASSUME NEW r \in Edit, RoleLocked(r) PROVE Stages'
  BY <1>6 DEF RoleLocked, Unmoved, Stages, R!Started, R!Versioned, R!Row, R!Kinds
<1>7. ASSUME NEW r \in Edit, R!ListHolders(r) PROVE Stages'
  BY <1>7 DEF R!ListHolders, Unmoved, Stages, R!Started, R!Versioned, R!Row, R!Kinds
<1>8. ASSUME NEW r \in Edit, R!LockHolder(r) PROVE Stages'
  BY <1>8 DEF R!LockHolder, Unmoved, Stages, R!Started, R!Versioned, R!Row, R!Kinds
<1>9. ASSUME NEW r \in Edit, TargetLocked(r) PROVE Stages'
  BY <1>9 DEF TargetLocked, Unmoved, Stages, R!Started, R!Versioned, R!Row, R!Kinds
<1>10. ASSUME NEW r \in Edit, Finished(r) PROVE Stages'
  BY <1>10 DEF Finished, Unmoved, Stages, R!Started, R!Versioned, R!Row, R!Kinds
<1>11. ASSUME NEW r \in Edit, R!Create(r) PROVE Stages'
  BY <1>11 DEF R!Create, R!NextRow, Unmoved, Stages, R!Started, R!Versioned, R!Row, R!Kinds
<1>12. ASSUME NEW r \in Edit, R!Update(r) PROVE Stages'
  BY <1>12 DEF R!Update, R!NextRow, Unmoved, Stages, R!Started, R!Versioned, R!Row, R!Kinds
<1>13. ASSUME NEW r \in Edit, R!Replace(r) PROVE Stages'
  BY <1>13 DEF R!Replace, R!NextRow, R!Raised, R!ActiveOf, Unmoved, Stages, R!Started, R!Versioned, R!Row, R!Kinds
<1>14. ASSUME NEW r \in Edit, R!Archive(r) PROVE Stages'
  BY <1>14 DEF R!Archive, R!NextRow, R!Raised, R!ActiveOf, Unmoved, Stages, R!Started, R!Versioned, R!Row, R!Kinds
<1>15. ASSUME NEW r \in Edit, R!Grant(r) PROVE Stages'
  BY <1>15 DEF R!Grant, R!Raised, Unmoved, Stages, R!Started, R!Versioned, R!Row, R!Kinds
<1>16. ASSUME NEW r \in Edit, R!Revoke(r) PROVE Stages'
  BY <1>16 DEF R!Revoke, R!Raised, Unmoved, Stages, R!Started, R!Versioned, R!Row, R!Kinds
<1>17. ASSUME NEW m \in Editor, R!Demote(m) \/ R!Suspend(m) PROVE Stages'
  BY <1>17 DEF R!Demote, R!Suspend, Unmoved, Stages, R!Started, R!Versioned, R!Row, R!Kinds
<1>18. CASE UNCHANGED rbac
  BY <1>18 DEF rbac, Unmoved, Stages, R!Started, R!Versioned, R!Row, R!Kinds
<1> QED
  BY <1>1, <1>2, <1>3, <1>4, <1>5, <1>6, <1>7, <1>8, <1>9, <1>10, <1>11, <1>12, <1>13, <1>14, <1>15, <1>16, <1>17, <1>18, RequestEffects DEF R!Next

\* Nobody takes a role that another has locked.
LEMMA RoleLocksStep ==
  ASSUME R!TypeOK, Stages, RoleLocks, [R!Next]_rbac
  PROVE  RoleLocks'
<1> USE DEF R!TypeOK, R!Go, R!End, R!Lock, R!tables, R!memory
<1>1. ASSUME NEW r \in Edit, R!LookAtRow(r) PROVE RoleLocks'
  BY <1>1 DEF R!LookAtRow, Unmoved, Stages, RoleLocks, R!HasRole, R!Started, R!RoleFree, R!Versioned
<1>2. ASSUME NEW r \in Edit, R!LookAtKeys(r) PROVE RoleLocks'
  BY <1>2 DEF R!LookAtKeys, Unmoved, Stages, RoleLocks, R!HasRole, R!Started, R!RoleFree, R!Versioned
<1>3. ASSUME NEW r \in Edit, R!Guard(r) PROVE RoleLocks'
  BY <1>3, SMTT(40) DEF R!Guard, Unmoved, Stages, RoleLocks, R!HasRole, R!Started, R!RoleFree, R!Versioned
<1>4. ASSUME NEW r \in Edit, Entered(r) PROVE RoleLocks'
  BY <1>4 DEF Entered, Unmoved, Stages, RoleLocks, R!HasRole, R!Started, R!RoleFree, R!Versioned
<1>5. ASSUME NEW r \in Edit, Checked(r) PROVE RoleLocks'
  BY <1>5 DEF Checked, Unmoved, Stages, RoleLocks, R!HasRole, R!Started, R!RoleFree, R!Versioned
<1>6. ASSUME NEW r \in Edit, RoleLocked(r) PROVE RoleLocks'
  BY <1>6 DEF RoleLocked, Unmoved, Stages, RoleLocks, R!HasRole, R!Started, R!RoleFree, R!Versioned
<1>7. ASSUME NEW r \in Edit, R!ListHolders(r) PROVE RoleLocks'
  BY <1>7 DEF R!ListHolders, Unmoved, Stages, RoleLocks, R!HasRole, R!Started, R!RoleFree, R!Versioned
<1>8. ASSUME NEW r \in Edit, R!LockHolder(r) PROVE RoleLocks'
  BY <1>8 DEF R!LockHolder, Unmoved, Stages, RoleLocks, R!HasRole, R!Started, R!RoleFree, R!Versioned
<1>9. ASSUME NEW r \in Edit, TargetLocked(r) PROVE RoleLocks'
  BY <1>9 DEF TargetLocked, Unmoved, Stages, RoleLocks, R!HasRole, R!Started, R!RoleFree, R!Versioned
<1>10. ASSUME NEW r \in Edit, Finished(r) PROVE RoleLocks'
  BY <1>10 DEF Finished, Unmoved, Stages, RoleLocks, R!HasRole, R!Started, R!RoleFree, R!Versioned
<1>11. ASSUME NEW r \in Edit, R!Create(r) PROVE RoleLocks'
  BY <1>11 DEF R!Create, R!NextRow, Unmoved, Stages, RoleLocks, R!HasRole, R!Started, R!RoleFree, R!Versioned
<1>12. ASSUME NEW r \in Edit, R!Update(r) PROVE RoleLocks'
  BY <1>12 DEF R!Update, R!NextRow, Unmoved, Stages, RoleLocks, R!HasRole, R!Started, R!RoleFree, R!Versioned
<1>13. ASSUME NEW r \in Edit, R!Replace(r) PROVE RoleLocks'
  BY <1>13 DEF R!Replace, R!NextRow, R!Raised, R!ActiveOf, Unmoved, Stages, RoleLocks, R!HasRole, R!Started, R!RoleFree, R!Versioned
<1>14. ASSUME NEW r \in Edit, R!Archive(r) PROVE RoleLocks'
  BY <1>14 DEF R!Archive, R!NextRow, R!Raised, R!ActiveOf, Unmoved, Stages, RoleLocks, R!HasRole, R!Started, R!RoleFree, R!Versioned
<1>15. ASSUME NEW r \in Edit, R!Grant(r) PROVE RoleLocks'
  BY <1>15 DEF R!Grant, R!Raised, Unmoved, Stages, RoleLocks, R!HasRole, R!Started, R!RoleFree, R!Versioned
<1>16. ASSUME NEW r \in Edit, R!Revoke(r) PROVE RoleLocks'
  BY <1>16 DEF R!Revoke, R!Raised, Unmoved, Stages, RoleLocks, R!HasRole, R!Started, R!RoleFree, R!Versioned
<1>17. ASSUME NEW m \in Editor, R!Demote(m) \/ R!Suspend(m) PROVE RoleLocks'
  BY <1>17 DEF R!Demote, R!Suspend, Unmoved, Stages, RoleLocks, R!HasRole, R!Started, R!RoleFree, R!Versioned
<1>18. CASE UNCHANGED rbac
  BY <1>18 DEF rbac, Unmoved, Stages, RoleLocks, R!HasRole, R!Started, R!RoleFree, R!Versioned
<1> QED
  BY <1>1, <1>2, <1>3, <1>4, <1>5, <1>6, <1>7, <1>8, <1>9, <1>10, <1>11, <1>12, <1>13, <1>14, <1>15, <1>16, <1>17, <1>18, RequestEffects DEF R!Next

\* Locks for a change and for reading exclude each other.
LEMMA MemberLocksStep ==
  ASSUME R!TypeOK, Stages, MemberLocks, [R!Next]_rbac
  PROVE  MemberLocks'
<1> USE DEF R!TypeOK, R!Go, R!End, R!Lock, R!tables, R!memory
<1>1. ASSUME NEW r \in Edit, R!LookAtRow(r) PROVE MemberLocks'
  BY <1>1 DEF R!LookAtRow, Unmoved, Stages, MemberLocks, R!Started, R!Shareable, R!Lockable, R!Versioned
<1>2. ASSUME NEW r \in Edit, R!LookAtKeys(r) PROVE MemberLocks'
  BY <1>2 DEF R!LookAtKeys, Unmoved, Stages, MemberLocks, R!Started, R!Shareable, R!Lockable, R!Versioned
<1>3. ASSUME NEW r \in Edit, R!Guard(r) PROVE MemberLocks'
  BY <1>3 DEF R!Guard, Unmoved, Stages, MemberLocks, R!Started, R!Shareable, R!Lockable, R!Versioned
<1>4. ASSUME NEW r \in Edit, Entered(r) PROVE MemberLocks'
  BY <1>4 DEF Entered, Unmoved, Stages, MemberLocks, R!Started, R!Shareable, R!Lockable, R!Versioned
<1>5. ASSUME NEW r \in Edit, Checked(r) PROVE MemberLocks'
  BY <1>5 DEF Checked, Unmoved, Stages, MemberLocks, R!Started, R!Shareable, R!Lockable, R!Versioned
<1>6. ASSUME NEW r \in Edit, RoleLocked(r) PROVE MemberLocks'
  BY <1>6 DEF RoleLocked, Unmoved, Stages, MemberLocks, R!Started, R!Shareable, R!Lockable, R!Versioned
<1>7. ASSUME NEW r \in Edit, R!ListHolders(r) PROVE MemberLocks'
  BY <1>7 DEF R!ListHolders, Unmoved, Stages, MemberLocks, R!Started, R!Shareable, R!Lockable, R!Versioned
<1>8. ASSUME NEW r \in Edit, R!LockHolder(r) PROVE MemberLocks'
  BY <1>8 DEF R!LockHolder, Unmoved, Stages, MemberLocks, R!Started, R!Shareable, R!Lockable, R!Versioned
<1>9. ASSUME NEW r \in Edit, TargetLocked(r) PROVE MemberLocks'
  BY <1>9 DEF TargetLocked, Unmoved, Stages, MemberLocks, R!Started, R!Shareable, R!Lockable, R!Versioned
<1>10. ASSUME NEW r \in Edit, Finished(r) PROVE MemberLocks'
  BY <1>10 DEF Finished, Unmoved, Stages, MemberLocks, R!Started, R!Shareable, R!Lockable, R!Versioned
<1>11. ASSUME NEW r \in Edit, R!Create(r) PROVE MemberLocks'
  BY <1>11 DEF R!Create, R!NextRow, Unmoved, Stages, MemberLocks, R!Started, R!Shareable, R!Lockable, R!Versioned
<1>12. ASSUME NEW r \in Edit, R!Update(r) PROVE MemberLocks'
  BY <1>12 DEF R!Update, R!NextRow, Unmoved, Stages, MemberLocks, R!Started, R!Shareable, R!Lockable, R!Versioned
<1>13. ASSUME NEW r \in Edit, R!Replace(r) PROVE MemberLocks'
  BY <1>13 DEF R!Replace, R!NextRow, R!Raised, R!ActiveOf, Unmoved, Stages, MemberLocks, R!Started, R!Shareable, R!Lockable, R!Versioned
<1>14. ASSUME NEW r \in Edit, R!Archive(r) PROVE MemberLocks'
  BY <1>14 DEF R!Archive, R!NextRow, R!Raised, R!ActiveOf, Unmoved, Stages, MemberLocks, R!Started, R!Shareable, R!Lockable, R!Versioned
<1>15. ASSUME NEW r \in Edit, R!Grant(r) PROVE MemberLocks'
  BY <1>15 DEF R!Grant, R!Raised, Unmoved, Stages, MemberLocks, R!Started, R!Shareable, R!Lockable, R!Versioned
<1>16. ASSUME NEW r \in Edit, R!Revoke(r) PROVE MemberLocks'
  BY <1>16 DEF R!Revoke, R!Raised, Unmoved, Stages, MemberLocks, R!Started, R!Shareable, R!Lockable, R!Versioned
<1>17. ASSUME NEW m \in Editor, R!Demote(m) \/ R!Suspend(m) PROVE MemberLocks'
  BY <1>17 DEF R!Demote, R!Suspend, Unmoved, Stages, MemberLocks, R!Started, R!Shareable, R!Lockable, R!Versioned
<1>18. CASE UNCHANGED rbac
  BY <1>18 DEF rbac, Unmoved, Stages, MemberLocks, R!Started, R!Shareable, R!Lockable, R!Versioned
<1> QED
  BY <1>1, <1>2, <1>3, <1>4, <1>5, <1>6, <1>7, <1>8, <1>9, <1>10, <1>11, <1>12, <1>13, <1>14, <1>15, <1>16, <1>17, <1>18, RequestEffects DEF R!Next

\* A row that is written: it has a new version, the others stay.
LEMMA RowWritten ==
  ASSUME R!TypeOK, NEW x \in Role, NEW s \in {"active", "archived"},
         NEW K \in SUBSET Permission, R!NextRow(x, s, K)
  PROVE  /\ customRole' \in [Role -> R!Row]
         /\ customRole'[x] = [status |-> s, version |-> customRole[x].version + 1, keys |-> K]
         /\ \A y \in Role : y # x => customRole'[y] = customRole[y]
<1> DEFINE new == [status |-> s, version |-> customRole[x].version + 1, keys |-> K]
<1>1. customRole \in [Role -> R!Row] /\ customRole' = [customRole EXCEPT ![x] = new]
  BY DEF R!TypeOK, R!NextRow
<1>2. new \in R!Row
  BY <1>1 DEF R!Row
<1> HIDE DEF new
<1>3. customRole' \in [Role -> R!Row] /\ customRole'[x] = new
  BY <1>1, <1>2
<1> QED
  BY <1>1, <1>3 DEF new

\* Memberships that are raised: they have new versions, and nothing else is new.
LEMMA RaisedIs ==
  ASSUME R!TypeOK, NEW M
  PROVE  /\ R!Raised(M) \in [Editor -> [status : {"active", "suspended"}, owner : BOOLEAN, version : Nat]]
         /\ \A m \in Editor :
              /\ R!Raised(M)[m].status = editor[m].status /\ R!Raised(M)[m].owner = editor[m].owner
              /\ R!Raised(M)[m].version = IF m \in M THEN editor[m].version + 1 ELSE editor[m].version
              /\ m \notin M => R!Raised(M)[m] = editor[m]
<1> DEFINE Membership == [status : {"active", "suspended"}, owner : BOOLEAN, version : Nat]
           up(m) == [editor[m] EXCEPT !.version = @ + 1]
<1>1. ASSUME NEW m \in Editor
      PROVE  /\ editor[m] \in Membership /\ up(m) \in Membership
             /\ up(m).status = editor[m].status /\ up(m).owner = editor[m].owner
             /\ up(m).version = editor[m].version + 1
  <2> DEFINE e == editor[m]
  <2>1. e \in Membership
    BY DEF R!TypeOK
  <2> HIDE DEF e
  <2>2. /\ [e EXCEPT !.version = @ + 1] \in Membership
        /\ [e EXCEPT !.version = @ + 1].status = e.status
        /\ [e EXCEPT !.version = @ + 1].owner = e.owner
        /\ [e EXCEPT !.version = @ + 1].version = e.version + 1
    BY <2>1
  <2> QED
    BY <2>1, <2>2 DEF e
<1>2. R!Raised(M) = [m \in Editor |-> IF m \in M THEN up(m) ELSE editor[m]]
  BY DEF R!Raised
<1> HIDE DEF up, Membership
<1>3. R!Raised(M) \in [Editor -> Membership]
  BY <1>1, <1>2
<1> QED
  BY <1>1, <1>2, <1>3 DEF Membership

\* An authorization has its type.
LEMMA AuthorityType ==
  ASSUME R!TypeOK, NEW m \in Editor
  PROVE  R!Authority(m) \in [version : Nat, owner : BOOLEAN, keys : SUBSET Permission]
<1>1. \A x \in Role : customRole[x].keys \in SUBSET Permission
  BY DEF R!TypeOK, R!Row
<1>2. \A x \in holds[m] : x \in Role
  BY DEF R!TypeOK
<1>3. R!Keys(m) \in SUBSET Permission
  BY <1>1, <1>2 DEF R!Keys
<1> HIDE DEF R!Keys
<1> QED
  BY <1>3 DEF R!Authority, R!TypeOK

\* Values keep their types.
LEMMA RbacTypesStep ==
  ASSUME R!TypeOK, Stages, [R!Next]_rbac
  PROVE  R!TypeOK'
<1> DEFINE Membership == [status : {"active", "suspended"}, owner : BOOLEAN, version : Nat]
           Wish == [kind : R!Kinds, role : Role, keys : SUBSET Permission,
                    actor : Editor, target : Editor]
           Context == [version : Nat, owner : BOOLEAN, keys : SUBSET Permission]
<1>1. ASSUME NEW l \in R!Label, NEW r \in Edit, editPc' = [editPc EXCEPT ![r] = l]
      PROVE  editPc' \in [Edit -> R!Label]
  BY <1>1 DEF R!TypeOK
<1>2. ASSUME NEW r \in Edit, locked' \in {locked, [locked EXCEPT ![r] = {}]}
      PROVE  locked' \in [Edit -> SUBSET Editor]
  BY <1>2 DEF R!TypeOK
<1>3. ASSUME NEW r \in Edit, NEW m \in Editor, locked' = [locked EXCEPT ![r] = @ \union {m}]
      PROVE  locked' \in [Edit -> SUBSET Editor]
  BY <1>3 DEF R!TypeOK
<1>4. ASSUME NEW r \in Edit, R!LookAtRow(r) PROVE R!TypeOK'
  <2>1. PICK k \in EditAsked, x \in Role, a \in Editor :
          \E t \in IF k \in {"grant", "revoke"} THEN Editor ELSE {a},
             K \in IF k \in {"create", "replace"} THEN SUBSET Permission ELSE {{}} :
            /\ edit' = [edit EXCEPT ![r] = [kind |-> k, role |-> x, keys |-> K, actor |-> a, target |-> t]]
            /\ seen' = [seen EXCEPT ![r].version = customRole[x].version]
            /\ editPc' = [editPc EXCEPT ![r] = IF k \in R!Versioned THEN "look" ELSE "guard"]
    BY <1>4 DEF R!LookAtRow, R!Go
  <2>2. PICK t \in IF k \in {"grant", "revoke"} THEN Editor ELSE {a},
             K \in IF k \in {"create", "replace"} THEN SUBSET Permission ELSE {{}} :
            /\ edit' = [edit EXCEPT ![r] = [kind |-> k, role |-> x, keys |-> K, actor |-> a, target |-> t]]
            /\ seen' = [seen EXCEPT ![r].version = customRole[x].version]
            /\ editPc' = [editPc EXCEPT ![r] = IF k \in R!Versioned THEN "look" ELSE "guard"]
    BY <2>1
  <2>9. t \in Editor /\ K \in SUBSET Permission /\ customRole[x].version \in Nat
    BY DEF R!TypeOK, R!Row
  <2> DEFINE new == [kind |-> k, role |-> x, keys |-> K, actor |-> a, target |-> t]
  <2>3. new \in Wish
    BY <2>9, AuthorityAssumption
  <2>4. edit \in [Edit -> Wish] /\ edit' = [edit EXCEPT ![r] = new]
    BY <2>2 DEF R!TypeOK
  <2> HIDE DEF new, Wish
  <2>5. edit' \in [Edit -> Wish]
    BY <2>3, <2>4
  <2>6. seen' \in [Edit -> R!Row]
    <3> DEFINE v == customRole[x].version
    <3>1. v \in Nat /\ seen' = [seen EXCEPT ![r].version = v] /\ seen \in [Edit -> R!Row]
      BY <2>2, <2>9 DEF R!TypeOK
    <3> HIDE DEF v
    <3> QED
      BY <3>1 DEF R!Row
  <2>7. editPc' \in [Edit -> R!Label]
    BY <1>1, <2>2 DEF R!Label
  <2>8. UNCHANGED <<customRole, holds, editor, context, found, locked>>
    BY <1>4 DEF R!LookAtRow, R!tables
  <2> QED
    BY <2>5, <2>6, <2>7, <2>8 DEF R!TypeOK, Wish
<1>5. ASSUME NEW r \in Edit, R!LookAtKeys(r) PROVE R!TypeOK'
  <2>1. customRole[edit[r].role].keys \in SUBSET Permission
    BY DEF R!TypeOK, R!Row
  <2>2. /\ seen' = [seen EXCEPT ![r].keys = customRole[edit[r].role].keys]
        /\ editPc' = [editPc EXCEPT ![r] = "guard"]
        /\ UNCHANGED <<customRole, holds, editor, edit, context, found, locked>>
    BY <1>5 DEF R!LookAtKeys, R!Go, R!tables
  <2>3. seen' \in [Edit -> R!Row]
    <3> DEFINE K == customRole[edit[r].role].keys
    <3>1. K \in SUBSET Permission /\ seen' = [seen EXCEPT ![r].keys = K] /\ seen \in [Edit -> R!Row]
      BY <2>1, <2>2 DEF R!TypeOK
    <3> HIDE DEF K
    <3> QED
      BY <3>1 DEF R!Row
  <2> QED
    BY <1>1, <2>2, <2>3 DEF R!TypeOK, R!Label
<1>6. ASSUME NEW r \in Edit, R!Guard(r) PROVE R!TypeOK'
  <2>1. /\ \E l \in {"enter", "refused"} : editPc' = [editPc EXCEPT ![r] = l]
        /\ context' \in {context, [context EXCEPT ![r] = R!Authority(edit[r].actor)]}
        /\ UNCHANGED <<customRole, holds, editor, edit, seen, found, locked>>
    BY <1>6 DEF R!Guard, R!Go, R!tables
  <2>2. edit[r].actor \in Editor
    BY DEF R!TypeOK
  <2>3. R!Authority(edit[r].actor) \in Context /\ context \in [Edit -> Context]
    BY <2>2, AuthorityType DEF R!TypeOK
  <2> HIDE DEF Context, R!Authority
  <2>4. context' \in [Edit -> Context]
    BY <2>1, <2>3
  <2>5. editPc' \in [Edit -> R!Label]
    BY <1>1, <2>1 DEF R!Label
  <2> QED
    BY <2>1, <2>4, <2>5 DEF R!TypeOK, Context
<1>7. ASSUME NEW r \in Edit, Entered(r) \/ Checked(r) \/ RoleLocked(r) \/ TargetLocked(r) \/ Finished(r)
      PROVE  R!TypeOK'
  <2>1. \E l \in R!Label : editPc' = [editPc EXCEPT ![r] = l]
    BY <1>7 DEF Entered, Checked, RoleLocked, TargetLocked, Finished, R!Label
  <2>2. locked' \in [Edit -> SUBSET Editor]
    BY <1>2, <1>3, <1>7 DEF Entered, Checked, RoleLocked, TargetLocked, Finished, R!TypeOK
  <2>3. Unmoved /\ found' = found
    BY <1>7 DEF Entered, Checked, RoleLocked, TargetLocked, Finished
  <2> QED
    BY <1>1, <2>1, <2>2, <2>3 DEF R!TypeOK, Unmoved
<1>8. ASSUME NEW r \in Edit, R!ListHolders(r) \/ R!LockHolder(r) PROVE R!TypeOK'
  <2>1. R!Affected(r) \in SUBSET Editor
    BY DEF R!Affected, R!Holders
  <2>2. \/ /\ found' = [found EXCEPT ![r] = R!Affected(r)]
           /\ editPc' = [editPc EXCEPT ![r] = "holders"]
           /\ UNCHANGED <<customRole, holds, editor, edit, seen, context, locked>>
        \/ /\ \E m \in found[r] : locked' = [locked EXCEPT ![r] = @ \union {m}]
           /\ UNCHANGED <<customRole, holds, editor, editPc, edit, seen, context, found>>
    BY <1>8 DEF R!ListHolders, R!LockHolder, R!Go, R!Lock, R!tables
  <2>3. \A m \in found[r] : m \in Editor
    BY DEF R!TypeOK
  <2> QED
    <3>1. found' \in [Edit -> SUBSET Editor]
      BY <2>1, <2>2 DEF R!TypeOK
    <3>2. locked' \in [Edit -> SUBSET Editor]
      BY <1>3, <2>2, <2>3 DEF R!TypeOK
    <3>3. editPc' \in [Edit -> R!Label]
      BY <1>1, <2>2 DEF R!TypeOK, R!Label
    <3> QED
      BY <2>2, <3>1, <3>2, <3>3 DEF R!TypeOK
<1>9. ASSUME NEW r \in Edit,
             R!Create(r) \/ R!Update(r) \/ R!Replace(r) \/ R!Archive(r) \/ R!Grant(r) \/ R!Revoke(r)
      PROVE  R!TypeOK'
  <2>1. /\ editPc' = [editPc EXCEPT ![r] = "ok"] /\ locked' = [locked EXCEPT ![r] = {}]
        /\ UNCHANGED <<edit, seen, context, found>>
    BY <1>9 DEF R!Create, R!Update, R!Replace, R!Archive, R!Grant, R!Revoke, R!End, R!Go
  <2>2. edit[r].role \in Role /\ edit[r].target \in Editor /\ edit[r].keys \in SUBSET Permission
    BY DEF R!TypeOK
  <2>3. customRole[edit[r].role].keys \in SUBSET Permission
    BY <2>2 DEF R!TypeOK, R!Row
  <2>4. customRole' \in [Role -> R!Row]
    BY <1>9, <2>2, <2>3, RowWritten DEF R!Create, R!Update, R!Replace, R!Archive, R!Grant, R!Revoke, R!TypeOK
  <2>5. editor' \in [Editor -> Membership]
    <3>1. editor' = editor \/ \E M : editor' = R!Raised(M)
      BY <1>9 DEF R!Create, R!Update, R!Replace, R!Archive, R!Grant, R!Revoke
    <3> QED
      BY <3>1, RaisedIs DEF R!TypeOK
  <2>6. holds' \in [Editor -> SUBSET Role]
    <3>1. CASE holds' = holds
      BY <3>1 DEF R!TypeOK
    <3>2. CASE R!Archive(r)
      BY <2>2, <3>2 DEF R!Archive, R!TypeOK
    <3>3. CASE R!Grant(r)
      BY <2>2, <3>3 DEF R!Grant, R!TypeOK
    <3>4. CASE R!Revoke(r)
      BY <2>2, <3>4 DEF R!Revoke, R!TypeOK
    <3> QED
      BY <1>9, <3>1, <3>2, <3>3, <3>4 DEF R!Create, R!Update, R!Replace
  <2>7. editPc' \in [Edit -> R!Label] /\ locked' \in [Edit -> SUBSET Editor]
    BY <1>1, <1>2, <2>1 DEF R!Label
  <2> QED
    BY <2>1, <2>4, <2>5, <2>6, <2>7 DEF R!TypeOK
<1>10. ASSUME NEW m \in Editor, R!Demote(m) \/ R!Suspend(m) PROVE R!TypeOK'
  <2>1. editor' \in [Editor -> Membership]
    <3>0. editor \in [Editor -> Membership]
      BY DEF R!TypeOK
    <3>1. \/ editor' = [editor EXCEPT ![m].owner = FALSE, ![m].version = @ + 1]
          \/ editor' = [editor EXCEPT ![m].status = "suspended", ![m].version = @ + 1]
      BY <1>10 DEF R!Demote, R!Suspend
    <3> QED BY ONLY <1>10, <3>0, <3>1
  <2>2. UNCHANGED <<customRole, holds, editPc, edit, seen, context, found, locked>>
    BY <1>10 DEF R!Demote, R!Suspend, R!memory
  <2> QED
    BY <2>1, <2>2 DEF R!TypeOK
<1>11. CASE UNCHANGED rbac
  BY <1>11 DEF rbac, R!TypeOK
<1> QED
  BY <1>4, <1>5, <1>6, <1>7, <1>8, <1>9, <1>10, <1>11, RequestEffects DEF R!Next

\* Nobody changes the membership of an author whose change is under way.
LEMMA ExactStep ==
  ASSUME R!TypeOK, Stages, MemberLocks, Exact, [R!Next]_rbac
  PROVE  Exact'
<1> USE DEF R!TypeOK, R!Go, R!End, R!Lock, R!tables, R!memory
<1>1. ASSUME NEW r \in Edit, R!LookAtRow(r) PROVE Exact'
  BY <1>1 DEF R!LookAtRow, Unmoved, Stages, MemberLocks, Exact, R!Started, R!Authority
<1>2. ASSUME NEW r \in Edit, R!LookAtKeys(r) PROVE Exact'
  BY <1>2 DEF R!LookAtKeys, Unmoved, Stages, MemberLocks, Exact, R!Started, R!Authority
<1>3. ASSUME NEW r \in Edit, R!Guard(r) PROVE Exact'
  BY <1>3 DEF R!Guard, Unmoved, Stages, MemberLocks, Exact, R!Started, R!Authority
<1>4. ASSUME NEW r \in Edit, Entered(r) PROVE Exact'
  BY <1>4 DEF Entered, Unmoved, Stages, MemberLocks, Exact, R!Started, R!Authority
<1>5. ASSUME NEW r \in Edit, Checked(r) PROVE Exact'
  BY <1>5 DEF Checked, Unmoved, Stages, MemberLocks, Exact, R!Started, R!Authority
<1>6. ASSUME NEW r \in Edit, RoleLocked(r) PROVE Exact'
  BY <1>6 DEF RoleLocked, Unmoved, Stages, MemberLocks, Exact, R!Started, R!Authority
<1>7. ASSUME NEW r \in Edit, R!ListHolders(r) PROVE Exact'
  BY <1>7 DEF R!ListHolders, Unmoved, Stages, MemberLocks, Exact, R!Started, R!Authority
<1>8. ASSUME NEW r \in Edit, R!LockHolder(r) PROVE Exact'
  BY <1>8 DEF R!LockHolder, Unmoved, Stages, MemberLocks, Exact, R!Started, R!Authority
<1>9. ASSUME NEW r \in Edit, TargetLocked(r) PROVE Exact'
  BY <1>9 DEF TargetLocked, Unmoved, Stages, MemberLocks, Exact, R!Started, R!Authority
<1>10. ASSUME NEW r \in Edit, Finished(r) PROVE Exact'
  BY <1>10 DEF Finished, Unmoved, Stages, MemberLocks, Exact, R!Started, R!Authority
<1>11. ASSUME NEW r \in Edit, R!Create(r) PROVE Exact'
  BY <1>11 DEF R!Create, R!NextRow, Unmoved, Stages, MemberLocks, Exact, R!Started, R!Authority
<1>12. ASSUME NEW r \in Edit, R!Update(r) PROVE Exact'
  BY <1>12 DEF R!Update, R!NextRow, Unmoved, Stages, MemberLocks, Exact, R!Started, R!Authority
<1>13. ASSUME NEW r \in Edit, R!Replace(r) PROVE Exact'
  BY <1>13 DEF R!Replace, R!NextRow, R!Raised, R!ActiveOf, Unmoved, Stages, MemberLocks, Exact, R!Started, R!Authority
<1>14. ASSUME NEW r \in Edit, R!Archive(r) PROVE Exact'
  BY <1>14 DEF R!Archive, R!NextRow, R!Raised, R!ActiveOf, Unmoved, Stages, MemberLocks, Exact, R!Started, R!Authority
<1>15. ASSUME NEW r \in Edit, R!Grant(r) PROVE Exact'
  BY <1>15 DEF R!Grant, R!Raised, Unmoved, Stages, MemberLocks, Exact, R!Started, R!Authority
<1>16. ASSUME NEW r \in Edit, R!Revoke(r) PROVE Exact'
  BY <1>16 DEF R!Revoke, R!Raised, Unmoved, Stages, MemberLocks, Exact, R!Started, R!Authority
<1>17. ASSUME NEW m \in Editor, R!Demote(m) \/ R!Suspend(m) PROVE Exact'
  BY <1>17 DEF R!Demote, R!Suspend, Unmoved, Stages, MemberLocks, Exact, R!Started, R!Authority
<1>18. CASE UNCHANGED rbac
  BY <1>18 DEF rbac, Unmoved, Stages, MemberLocks, Exact, R!Started, R!Authority
<1> QED
  BY <1>1, <1>2, <1>3, <1>4, <1>5, <1>6, <1>7, <1>8, <1>9, <1>10, <1>11, <1>12, <1>13, <1>14, <1>15, <1>16, <1>17, <1>18, RequestEffects DEF R!Next

\* While a role is locked, nobody is granted it.
LEMMA FoundAllStep ==
  ASSUME R!TypeOK, Stages, RoleLocks, FoundAll, [R!Next]_rbac
  PROVE  FoundAll'
<1> USE DEF R!TypeOK, R!Go, R!End, R!Lock, R!tables, R!memory
<1>1. ASSUME NEW r \in Edit, R!LookAtRow(r) PROVE FoundAll'
  BY <1>1 DEF R!LookAtRow, Unmoved, Stages, RoleLocks, FoundAll, R!Holders, R!HasRole, R!Started, R!Affected
<1>2. ASSUME NEW r \in Edit, R!LookAtKeys(r) PROVE FoundAll'
  BY <1>2 DEF R!LookAtKeys, Unmoved, Stages, RoleLocks, FoundAll, R!Holders, R!HasRole, R!Started, R!Affected
<1>3. ASSUME NEW r \in Edit, R!Guard(r) PROVE FoundAll'
  BY <1>3 DEF R!Guard, Unmoved, Stages, RoleLocks, FoundAll, R!Holders, R!HasRole, R!Started, R!Affected
<1>4. ASSUME NEW r \in Edit, Entered(r) PROVE FoundAll'
  BY <1>4 DEF Entered, Unmoved, Stages, RoleLocks, FoundAll, R!Holders, R!HasRole, R!Started, R!Affected
<1>5. ASSUME NEW r \in Edit, Checked(r) PROVE FoundAll'
  BY <1>5 DEF Checked, Unmoved, Stages, RoleLocks, FoundAll, R!Holders, R!HasRole, R!Started, R!Affected
<1>6. ASSUME NEW r \in Edit, RoleLocked(r) PROVE FoundAll'
  BY <1>6 DEF RoleLocked, Unmoved, Stages, RoleLocks, FoundAll, R!Holders, R!HasRole, R!Started, R!Affected
<1>7. ASSUME NEW r \in Edit, R!ListHolders(r) PROVE FoundAll'
  BY <1>7 DEF R!ListHolders, Unmoved, Stages, RoleLocks, FoundAll, R!Holders, R!HasRole, R!Started, R!Affected
<1>8. ASSUME NEW r \in Edit, R!LockHolder(r) PROVE FoundAll'
  BY <1>8 DEF R!LockHolder, Unmoved, Stages, RoleLocks, FoundAll, R!Holders, R!HasRole, R!Started, R!Affected
<1>9. ASSUME NEW r \in Edit, TargetLocked(r) PROVE FoundAll'
  BY <1>9 DEF TargetLocked, Unmoved, Stages, RoleLocks, FoundAll, R!Holders, R!HasRole, R!Started, R!Affected
<1>10. ASSUME NEW r \in Edit, Finished(r) PROVE FoundAll'
  BY <1>10 DEF Finished, Unmoved, Stages, RoleLocks, FoundAll, R!Holders, R!HasRole, R!Started, R!Affected
<1>11. ASSUME NEW r \in Edit, R!Create(r) PROVE FoundAll'
  BY <1>11 DEF R!Create, R!NextRow, Unmoved, Stages, RoleLocks, FoundAll, R!Holders, R!HasRole, R!Started, R!Affected
<1>12. ASSUME NEW r \in Edit, R!Update(r) PROVE FoundAll'
  BY <1>12 DEF R!Update, R!NextRow, Unmoved, Stages, RoleLocks, FoundAll, R!Holders, R!HasRole, R!Started, R!Affected
<1>13. ASSUME NEW r \in Edit, R!Replace(r) PROVE FoundAll'
  BY <1>13 DEF R!Replace, R!NextRow, R!Raised, R!ActiveOf, Unmoved, Stages, RoleLocks, FoundAll, R!Holders, R!HasRole, R!Started, R!Affected
<1>14. ASSUME NEW r \in Edit, R!Archive(r) PROVE FoundAll'
  <2>1. /\ editPc[r] = "holders" /\ editPc' = [editPc EXCEPT ![r] = "ok"] /\ edit' = edit /\ found' = found
        /\ holds' = [m \in Editor |-> IF m \in found[r] THEN holds[m] \ {edit[r].role} ELSE holds[m]]
        /\ editor' = R!Raised(R!ActiveOf(found[r]))
    BY <1>14 DEF R!Archive
  <2>2. \A m \in Editor : holds'[m] \subseteq holds[m] /\ editor'[m].status = editor[m].status
    BY <2>1, RaisedIs
  <2>3. ASSUME NEW q \in Edit, editPc'[q] = "holders", NEW m \in Editor, edit[q].role \in holds'[m],
               edit[q].kind = "archive" \/ editor'[m].status = "active"
        PROVE  m \in found'[q]
    <3>1. editPc[q] = "holders" /\ edit[q].role \in holds[m]
      BY <2>1, <2>2, <2>3
    <3> QED
      BY <2>1, <2>2, <2>3, <3>1 DEF FoundAll, R!Holders
  <2>4. edit' = edit
    BY <2>1
  <2> QED
    BY <2>3, <2>4 DEF FoundAll, R!Holders
<1>15. ASSUME NEW r \in Edit, R!Grant(r) PROVE FoundAll'
  <2>1. /\ editPc[r] = "write" /\ editPc' = [editPc EXCEPT ![r] = "ok"] /\ edit' = edit /\ found' = found
        /\ holds' = [holds EXCEPT ![edit[r].target] = holds[edit[r].target] \union {edit[r].role}]
        /\ editor' = R!Raised({edit[r].target}) /\ R!HasRole(r)
    BY <1>15 DEF R!Grant, R!HasRole, R!Started
  <2>2. \A m \in Editor : /\ holds'[m] \subseteq holds[m] \union {edit[r].role}
                          /\ editor'[m].status = editor[m].status
    BY <2>1, RaisedIs
  <2>3. ASSUME NEW q \in Edit, editPc'[q] = "holders", NEW m \in Editor, edit[q].role \in holds'[m],
               edit[q].kind = "archive" \/ editor'[m].status = "active"
        PROVE  m \in found'[q]
    <3>1. q # r /\ editPc[q] = "holders" /\ R!HasRole(q)
      BY <2>1, <2>3 DEF Stages, R!HasRole, R!Started
    <3>2. edit[q].role # edit[r].role
      BY <2>1, <3>1 DEF RoleLocks
    <3>3. edit[q].role \in holds[m]
      BY <2>2, <2>3, <3>2
    <3> QED
      BY <2>1, <2>2, <2>3, <3>1, <3>3 DEF FoundAll, R!Holders
  <2>4. edit' = edit
    BY <2>1
  <2> QED
    BY <2>3, <2>4 DEF FoundAll, R!Holders
<1>16. ASSUME NEW r \in Edit, R!Revoke(r) PROVE FoundAll'
  BY <1>16 DEF R!Revoke, R!Raised, Unmoved, Stages, RoleLocks, FoundAll, R!Holders, R!HasRole, R!Started, R!Affected
<1>17. ASSUME NEW m \in Editor, R!Demote(m) \/ R!Suspend(m) PROVE FoundAll'
  BY <1>17 DEF R!Demote, R!Suspend, Unmoved, Stages, RoleLocks, FoundAll, R!Holders, R!HasRole, R!Started, R!Affected
<1>18. CASE UNCHANGED rbac
  BY <1>18 DEF rbac, Unmoved, Stages, RoleLocks, FoundAll, R!Holders, R!HasRole, R!Started, R!Affected
<1> QED
  BY <1>1, <1>2, <1>3, <1>4, <1>5, <1>6, <1>7, <1>8, <1>9, <1>10, <1>11, <1>12, <1>13, <1>14, <1>15, <1>16, <1>17, <1>18, RequestEffects DEF R!Next

\* A role that changes gets a new version.
LEMMA SeenAsOfStep ==
  ASSUME R!TypeOK, Stages, RoleLocks, SeenAsOf, [R!Next]_rbac
  PROVE  SeenAsOf'
<1> USE DEF R!TypeOK, R!Go, R!End, R!Lock, R!tables, R!memory
<1>1. ASSUME NEW r \in Edit, R!LookAtRow(r) PROVE SeenAsOf'
  BY <1>1 DEF R!LookAtRow, Unmoved, Stages, RoleLocks, SeenAsOf, R!HasRole, R!Started, R!Versioned, R!Row
<1>2. ASSUME NEW r \in Edit, R!LookAtKeys(r) PROVE SeenAsOf'
  BY <1>2 DEF R!LookAtKeys, Unmoved, Stages, RoleLocks, SeenAsOf, R!HasRole, R!Started, R!Versioned, R!Row
<1>3. ASSUME NEW r \in Edit, R!Guard(r) PROVE SeenAsOf'
  BY <1>3 DEF R!Guard, Unmoved, Stages, RoleLocks, SeenAsOf, R!HasRole, R!Started, R!Versioned, R!Row
<1>4. ASSUME NEW r \in Edit, Entered(r) PROVE SeenAsOf'
  BY <1>4 DEF Entered, Unmoved, Stages, RoleLocks, SeenAsOf, R!HasRole, R!Started, R!Versioned, R!Row
<1>5. ASSUME NEW r \in Edit, Checked(r) PROVE SeenAsOf'
  BY <1>5 DEF Checked, Unmoved, Stages, RoleLocks, SeenAsOf, R!HasRole, R!Started, R!Versioned, R!Row
<1>6. ASSUME NEW r \in Edit, RoleLocked(r) PROVE SeenAsOf'
  BY <1>6 DEF RoleLocked, Unmoved, Stages, RoleLocks, SeenAsOf, R!HasRole, R!Started, R!Versioned, R!Row
<1>7. ASSUME NEW r \in Edit, R!ListHolders(r) PROVE SeenAsOf'
  BY <1>7 DEF R!ListHolders, Unmoved, Stages, RoleLocks, SeenAsOf, R!HasRole, R!Started, R!Versioned, R!Row
<1>8. ASSUME NEW r \in Edit, R!LockHolder(r) PROVE SeenAsOf'
  BY <1>8 DEF R!LockHolder, Unmoved, Stages, RoleLocks, SeenAsOf, R!HasRole, R!Started, R!Versioned, R!Row
<1>9. ASSUME NEW r \in Edit, TargetLocked(r) PROVE SeenAsOf'
  BY <1>9 DEF TargetLocked, Unmoved, Stages, RoleLocks, SeenAsOf, R!HasRole, R!Started, R!Versioned, R!Row
<1>10. ASSUME NEW r \in Edit, Finished(r) PROVE SeenAsOf'
  BY <1>10 DEF Finished, Unmoved, Stages, RoleLocks, SeenAsOf, R!HasRole, R!Started, R!Versioned, R!Row
<1>11. ASSUME NEW r \in Edit, R!Create(r) PROVE SeenAsOf'
  <2>1. PICK x \in Role : customRole[x].status = "none" /\ R!NextRow(x, "active", edit[r].keys)
    BY <1>11 DEF R!Create
  <2>2. edit' = edit /\ seen' = seen /\ editPc' = [editPc EXCEPT ![r] = "ok"] /\ edit[r].kind = "create"
    BY <1>11 DEF R!Create
  <2>3. \A q \in Edit : editPc[q] # "new" /\ edit[q].kind \in R!Versioned =>
          customRole'[edit[q].role] = customRole[edit[q].role]
    <3>1. edit[r].keys \in SUBSET Permission /\ \A q \in Edit : edit[q].role \in Role
      OBVIOUS
    <3>2. \A y \in Role : y # x => customRole'[y] = customRole[y]
      BY <2>1, <3>1, RowWritten
    <3> QED
      BY <2>1, <3>1, <3>2 DEF Stages, R!Versioned
  <2> QED
    BY <2>2, <2>3 DEF SeenAsOf, R!HasRole, R!Started, R!Versioned
<1>12. ASSUME NEW r \in Edit, R!Update(r) PROVE SeenAsOf'
  <2>1. /\ edit' = edit /\ seen' = seen /\ editPc' = [editPc EXCEPT ![r] = "ok"]
        /\ R!HasRole(r) /\ edit[r].role \in Role
        /\ \E s \in {"active", "archived"}, K \in SUBSET Permission : R!NextRow(edit[r].role, s, K)
    BY <1>12 DEF R!Update, R!HasRole, R!Started, R!Row
  <2>2. /\ customRole'[edit[r].role].version = customRole[edit[r].role].version + 1
        /\ \A y \in Role : y # edit[r].role => customRole'[y] = customRole[y]
    <3>1. PICK s \in {"active", "archived"}, K \in SUBSET Permission : R!NextRow(edit[r].role, s, K)
      BY <2>1
    <3>2. /\ customRole'[edit[r].role] =
               [status |-> s, version |-> customRole[edit[r].role].version + 1, keys |-> K]
          /\ \A y \in Role : y # edit[r].role => customRole'[y] = customRole[y]
      BY <2>1, <3>1, RowWritten
    <3> QED
      BY <3>2
  <2> QED
    BY <2>1, <2>2 DEF SeenAsOf, RoleLocks, R!HasRole, R!Started, R!Row
<1>13. ASSUME NEW r \in Edit, R!Replace(r) PROVE SeenAsOf'
  <2>1. /\ edit' = edit /\ seen' = seen /\ editPc' = [editPc EXCEPT ![r] = "ok"]
        /\ R!HasRole(r) /\ edit[r].role \in Role
        /\ \E s \in {"active", "archived"}, K \in SUBSET Permission : R!NextRow(edit[r].role, s, K)
    BY <1>13 DEF R!Replace, R!HasRole, R!Started, R!Row
  <2>2. /\ customRole'[edit[r].role].version = customRole[edit[r].role].version + 1
        /\ \A y \in Role : y # edit[r].role => customRole'[y] = customRole[y]
    <3>1. PICK s \in {"active", "archived"}, K \in SUBSET Permission : R!NextRow(edit[r].role, s, K)
      BY <2>1
    <3>2. /\ customRole'[edit[r].role] =
               [status |-> s, version |-> customRole[edit[r].role].version + 1, keys |-> K]
          /\ \A y \in Role : y # edit[r].role => customRole'[y] = customRole[y]
      BY <2>1, <3>1, RowWritten
    <3> QED
      BY <3>2
  <2> QED
    BY <2>1, <2>2 DEF SeenAsOf, RoleLocks, R!HasRole, R!Started, R!Row
<1>14. ASSUME NEW r \in Edit, R!Archive(r) PROVE SeenAsOf'
  <2>1. /\ edit' = edit /\ seen' = seen /\ editPc' = [editPc EXCEPT ![r] = "ok"]
        /\ R!HasRole(r) /\ edit[r].role \in Role
        /\ \E s \in {"active", "archived"}, K \in SUBSET Permission : R!NextRow(edit[r].role, s, K)
    BY <1>14 DEF R!Archive, R!HasRole, R!Started, R!Row
  <2>2. /\ customRole'[edit[r].role].version = customRole[edit[r].role].version + 1
        /\ \A y \in Role : y # edit[r].role => customRole'[y] = customRole[y]
    <3>1. PICK s \in {"active", "archived"}, K \in SUBSET Permission : R!NextRow(edit[r].role, s, K)
      BY <2>1
    <3>2. /\ customRole'[edit[r].role] =
               [status |-> s, version |-> customRole[edit[r].role].version + 1, keys |-> K]
          /\ \A y \in Role : y # edit[r].role => customRole'[y] = customRole[y]
      BY <2>1, <3>1, RowWritten
    <3> QED
      BY <3>2
  <2> QED
    BY <2>1, <2>2 DEF SeenAsOf, RoleLocks, R!HasRole, R!Started, R!Row
<1>15. ASSUME NEW r \in Edit, R!Grant(r) PROVE SeenAsOf'
  BY <1>15 DEF R!Grant, R!Raised, Unmoved, Stages, RoleLocks, SeenAsOf, R!HasRole, R!Started, R!Versioned, R!Row
<1>16. ASSUME NEW r \in Edit, R!Revoke(r) PROVE SeenAsOf'
  BY <1>16 DEF R!Revoke, R!Raised, Unmoved, Stages, RoleLocks, SeenAsOf, R!HasRole, R!Started, R!Versioned, R!Row
<1>17. ASSUME NEW m \in Editor, R!Demote(m) \/ R!Suspend(m) PROVE SeenAsOf'
  BY <1>17 DEF R!Demote, R!Suspend, Unmoved, Stages, RoleLocks, SeenAsOf, R!HasRole, R!Started, R!Versioned, R!Row
<1>18. CASE UNCHANGED rbac
  BY <1>18 DEF rbac, Unmoved, Stages, RoleLocks, SeenAsOf, R!HasRole, R!Started, R!Versioned, R!Row
<1> QED
  BY <1>1, <1>2, <1>3, <1>4, <1>5, <1>6, <1>7, <1>8, <1>9, <1>10, <1>11, <1>12, <1>13, <1>14, <1>15, <1>16, <1>17, <1>18, RequestEffects DEF R!Next

\* An archived role is taken from everybody.
LEMMA ArchivedRolesAreHeldByNobodyStep ==
  ASSUME R!TypeOK, Stages, FoundAll, ArchivedRolesAreHeldByNobody, [R!Next]_rbac
  PROVE  ArchivedRolesAreHeldByNobody'
<1> USE DEF R!TypeOK, R!Go, R!End, R!Lock, R!tables, R!memory
<1>1. ASSUME NEW r \in Edit, R!LookAtRow(r) PROVE ArchivedRolesAreHeldByNobody'
  BY <1>1 DEF R!LookAtRow, Unmoved, Stages, FoundAll, ArchivedRolesAreHeldByNobody, R!ArchivedRolesAreHeldByNobody, R!Holders, R!Assignable
<1>2. ASSUME NEW r \in Edit, R!LookAtKeys(r) PROVE ArchivedRolesAreHeldByNobody'
  BY <1>2 DEF R!LookAtKeys, Unmoved, Stages, FoundAll, ArchivedRolesAreHeldByNobody, R!ArchivedRolesAreHeldByNobody, R!Holders, R!Assignable
<1>3. ASSUME NEW r \in Edit, R!Guard(r) PROVE ArchivedRolesAreHeldByNobody'
  BY <1>3 DEF R!Guard, Unmoved, Stages, FoundAll, ArchivedRolesAreHeldByNobody, R!ArchivedRolesAreHeldByNobody, R!Holders, R!Assignable
<1>4. ASSUME NEW r \in Edit, Entered(r) PROVE ArchivedRolesAreHeldByNobody'
  BY <1>4 DEF Entered, Unmoved, Stages, FoundAll, ArchivedRolesAreHeldByNobody, R!ArchivedRolesAreHeldByNobody, R!Holders, R!Assignable
<1>5. ASSUME NEW r \in Edit, Checked(r) PROVE ArchivedRolesAreHeldByNobody'
  BY <1>5 DEF Checked, Unmoved, Stages, FoundAll, ArchivedRolesAreHeldByNobody, R!ArchivedRolesAreHeldByNobody, R!Holders, R!Assignable
<1>6. ASSUME NEW r \in Edit, RoleLocked(r) PROVE ArchivedRolesAreHeldByNobody'
  BY <1>6 DEF RoleLocked, Unmoved, Stages, FoundAll, ArchivedRolesAreHeldByNobody, R!ArchivedRolesAreHeldByNobody, R!Holders, R!Assignable
<1>7. ASSUME NEW r \in Edit, R!ListHolders(r) PROVE ArchivedRolesAreHeldByNobody'
  BY <1>7 DEF R!ListHolders, Unmoved, Stages, FoundAll, ArchivedRolesAreHeldByNobody, R!ArchivedRolesAreHeldByNobody, R!Holders, R!Assignable
<1>8. ASSUME NEW r \in Edit, R!LockHolder(r) PROVE ArchivedRolesAreHeldByNobody'
  BY <1>8 DEF R!LockHolder, Unmoved, Stages, FoundAll, ArchivedRolesAreHeldByNobody, R!ArchivedRolesAreHeldByNobody, R!Holders, R!Assignable
<1>9. ASSUME NEW r \in Edit, TargetLocked(r) PROVE ArchivedRolesAreHeldByNobody'
  BY <1>9 DEF TargetLocked, Unmoved, Stages, FoundAll, ArchivedRolesAreHeldByNobody, R!ArchivedRolesAreHeldByNobody, R!Holders, R!Assignable
<1>10. ASSUME NEW r \in Edit, Finished(r) PROVE ArchivedRolesAreHeldByNobody'
  BY <1>10 DEF Finished, Unmoved, Stages, FoundAll, ArchivedRolesAreHeldByNobody, R!ArchivedRolesAreHeldByNobody, R!Holders, R!Assignable
<1>11. ASSUME NEW r \in Edit, R!Create(r) PROVE ArchivedRolesAreHeldByNobody'
  BY <1>11 DEF R!Create, R!NextRow, Unmoved, Stages, FoundAll, ArchivedRolesAreHeldByNobody, R!ArchivedRolesAreHeldByNobody, R!Holders, R!Assignable
<1>12. ASSUME NEW r \in Edit, R!Update(r) PROVE ArchivedRolesAreHeldByNobody'
  BY <1>12 DEF R!Update, R!NextRow, Unmoved, Stages, FoundAll, ArchivedRolesAreHeldByNobody, R!ArchivedRolesAreHeldByNobody, R!Holders, R!Assignable
<1>13. ASSUME NEW r \in Edit, R!Replace(r) PROVE ArchivedRolesAreHeldByNobody'
  BY <1>13 DEF R!Replace, R!NextRow, R!Raised, R!ActiveOf, Unmoved, Stages, FoundAll, ArchivedRolesAreHeldByNobody, R!ArchivedRolesAreHeldByNobody, R!Holders, R!Assignable
<1>14. ASSUME NEW r \in Edit, R!Archive(r) PROVE ArchivedRolesAreHeldByNobody'
  BY <1>14 DEF R!Archive, R!NextRow, R!Raised, R!ActiveOf, Unmoved, Stages, FoundAll, ArchivedRolesAreHeldByNobody, R!ArchivedRolesAreHeldByNobody, R!Holders, R!Assignable
<1>15. ASSUME NEW r \in Edit, R!Grant(r) PROVE ArchivedRolesAreHeldByNobody'
  BY <1>15 DEF R!Grant, R!Raised, Unmoved, Stages, FoundAll, ArchivedRolesAreHeldByNobody, R!ArchivedRolesAreHeldByNobody, R!Holders, R!Assignable
<1>16. ASSUME NEW r \in Edit, R!Revoke(r) PROVE ArchivedRolesAreHeldByNobody'
  BY <1>16 DEF R!Revoke, R!Raised, Unmoved, Stages, FoundAll, ArchivedRolesAreHeldByNobody, R!ArchivedRolesAreHeldByNobody, R!Holders, R!Assignable
<1>17. ASSUME NEW m \in Editor, R!Demote(m) \/ R!Suspend(m) PROVE ArchivedRolesAreHeldByNobody'
  BY <1>17 DEF R!Demote, R!Suspend, Unmoved, Stages, FoundAll, ArchivedRolesAreHeldByNobody, R!ArchivedRolesAreHeldByNobody, R!Holders, R!Assignable
<1>18. CASE UNCHANGED rbac
  BY <1>18 DEF rbac, Unmoved, Stages, FoundAll, ArchivedRolesAreHeldByNobody, R!ArchivedRolesAreHeldByNobody, R!Holders, R!Assignable
<1> QED
  BY <1>1, <1>2, <1>3, <1>4, <1>5, <1>6, <1>7, <1>8, <1>9, <1>10, <1>11, <1>12, <1>13, <1>14, <1>15, <1>16, <1>17, <1>18, RequestEffects DEF R!Next

\* A request that has been authorized keeps its call and authorization.
LEMMA OthersLook ==
  ASSUME R!TypeOK, [R!Next]_rbac, NEW q \in Edit,
         editPc[q] \notin {"new", "look", "guard", "refused"}
  PROVE  edit'[q] = edit[q] /\ context'[q] = context[q]
<1>1. CASE UNCHANGED <<edit, context>>
  BY <1>1
<1>2. ASSUME NEW r \in Edit, R!LookAtRow(r) \/ R!Guard(r) PROVE edit'[q] = edit[q] /\ context'[q] = context[q]
  BY <1>2 DEF R!LookAtRow, R!Guard, R!TypeOK
<1>3. ASSUME NEW r \in Edit,
             \/ R!LookAtKeys(r) \/ R!ListHolders(r) \/ R!LockHolder(r)
             \/ Entered(r) \/ Checked(r) \/ RoleLocked(r) \/ TargetLocked(r) \/ Finished(r)
             \/ R!Create(r) \/ R!Update(r) \/ R!Replace(r) \/ R!Archive(r) \/ R!Grant(r) \/ R!Revoke(r)
      PROVE  UNCHANGED <<edit, context>>
  BY <1>3 DEF R!LookAtKeys, R!ListHolders, R!LockHolder, Entered, Checked, RoleLocked, TargetLocked,
              Finished, Unmoved, R!Create, R!Update, R!Replace, R!Archive, R!Grant, R!Revoke
<1>4. ASSUME NEW m \in Editor, R!Demote(m) \/ R!Suspend(m) PROVE UNCHANGED <<edit, context>>
  BY <1>4 DEF R!Demote, R!Suspend, R!memory
<1>5. CASE UNCHANGED rbac
  BY <1>5 DEF rbac
<1> QED
  BY <1>1, <1>2, <1>3, <1>4, <1>5, RequestEffects DEF R!Next

\* Only the guard authorizes.
LEMMA LooksOrEnters ==
  ASSUME R!TypeOK, [R!Next]_rbac, NEW q \in Edit,
         editPc[q] \in {"new", "look", "guard", "refused"},
         editPc'[q] \notin {"new", "look", "guard", "refused"}
  PROVE  R!Guard(q) /\ editPc'[q] = "enter"
<1> USE DEF R!TypeOK, R!Go
<1>1. editPc' # editPc
  OBVIOUS
<1>2. ASSUME NEW r \in Edit, R!LookAtRow(r) \/ R!LookAtKeys(r) \/ R!Guard(r)
      PROVE  R!Guard(q) /\ editPc'[q] = "enter"
  <2>1. \E l : editPc' = [editPc EXCEPT ![r] = l]
    BY <1>2 DEF R!LookAtRow, R!LookAtKeys, R!Guard
  <2>2. r = q
    BY <2>1
  <2>3. ~R!LookAtRow(q)
    BY DEF R!LookAtRow
  <2>4. ~R!LookAtKeys(q)
    BY DEF R!LookAtKeys
  <2>5. R!Guard(q)
    BY <1>2, <2>2, <2>3, <2>4
  <2> QED
    BY <2>5 DEF R!Guard
<1>3. ASSUME NEW r \in Edit,
             \/ R!ListHolders(r) \/ Entered(r) \/ Checked(r) \/ RoleLocked(r) \/ TargetLocked(r)
             \/ Finished(r) \/ R!Create(r) \/ R!Update(r) \/ R!Replace(r) \/ R!Archive(r)
             \/ R!Grant(r) \/ R!Revoke(r)
      PROVE  FALSE
  <2>1. /\ editPc[r] \notin {"new", "look", "guard", "refused"}
        /\ \E l : editPc' = [editPc EXCEPT ![r] = l]
    BY <1>3 DEF R!ListHolders, Entered, Checked, RoleLocked, TargetLocked, Finished, R!Started,
                R!Create, R!Update, R!Replace, R!Archive, R!Grant, R!Revoke, R!End
  <2> QED
    BY <2>1
<1>4. ASSUME NEW r \in Edit, R!LockHolder(r) PROVE FALSE
  BY <1>1, <1>4 DEF R!LockHolder
<1>5. ASSUME NEW m \in Editor, R!Demote(m) \/ R!Suspend(m) PROVE FALSE
  BY <1>1, <1>5 DEF R!Demote, R!Suspend
<1>6. CASE UNCHANGED rbac
  BY <1>1, <1>6 DEF rbac
<1> QED
  BY <1>2, <1>3, <1>4, <1>5, <1>6, RequestEffects DEF R!Next

\* Who has nothing new keeps his authorization; else he has a new version.
Same(m) == /\ editor[m].version <= editor'[m].version
           /\ editor'[m].version = editor[m].version =>
                /\ editor'[m].status = editor[m].status
                /\ editor[m].status = "active" => R!Authority(m)' = R!Authority(m)

LEMMA SameKeys ==
  ASSUME R!TypeOK, NEW m \in Editor,
         editor'[m] = editor[m], holds'[m] = holds[m],
         \A x \in holds[m] : customRole'[x] = customRole[x]
  PROVE  Same(m)
<1>1. R!Keys(m)' = R!Keys(m)
  BY DEF R!Keys
<1> HIDE DEF R!Keys
<1>2. R!Authority(m)' = R!Authority(m)
  BY <1>1 DEF R!Authority
<1> QED
  BY <1>2 DEF Same, R!TypeOK

LEMMA RaisedNew ==
  ASSUME R!TypeOK, NEW M, NEW m \in M \cap Editor, editor' = R!Raised(M)
  PROVE  Same(m)
<1>1. editor'[m].version = editor[m].version + 1 /\ editor[m].version \in Nat
  BY RaisedIs DEF R!TypeOK
<1> QED
  BY <1>1 DEF Same

LEMMA VersionsMove ==
  ASSUME R!TypeOK, Stages, RoleLocks, FoundAll, ArchivedRolesAreHeldByNobody, [R!Next]_rbac,
         NEW m \in Editor
  PROVE  Same(m)
<1>1. CASE UNCHANGED <<customRole, holds, editor>>
  BY <1>1, SameKeys
<1>2. ASSUME NEW n \in Editor, R!Demote(n) \/ R!Suspend(n) PROVE Same(m)
  <2>1. /\ customRole' = customRole /\ holds' = holds
        /\ m # n => editor'[m] = editor[m]
        /\ m = n => editor'[m].version = editor[m].version + 1
        /\ editor[m].version \in Nat
    BY <1>2 DEF R!Demote, R!Suspend, R!TypeOK
  <2>2. CASE m = n
    BY <2>1, <2>2 DEF Same
  <2>3. CASE m # n
    BY <2>1, <2>3, SameKeys
  <2> QED
    BY <2>2, <2>3
<1>3. ASSUME NEW r \in Edit, R!Create(r) PROVE Same(m)
  <2>1. PICK x \in Role : customRole[x].status = "none" /\ R!NextRow(x, "active", edit[r].keys)
    BY <1>3 DEF R!Create
  <2>2. editor' = editor /\ holds' = holds /\ x \notin holds[m] /\ holds[m] \subseteq Role
    BY <1>3, <2>1 DEF R!Create, ArchivedRolesAreHeldByNobody, R!ArchivedRolesAreHeldByNobody, R!TypeOK
  <2>3. edit[r].keys \in SUBSET Permission
    BY DEF R!TypeOK
  <2>4. \A y \in Role : y # x => customRole'[y] = customRole[y]
    BY <2>1, <2>3, RowWritten
  <2> QED
    BY <2>2, <2>4, SameKeys
<1>4. ASSUME NEW r \in Edit, R!Update(r) PROVE Same(m)
  <2> DEFINE x == edit[r].role
  <2>1. /\ x \in Role /\ customRole[x].keys \in SUBSET Permission /\ holds[m] \subseteq Role
        /\ R!NextRow(x, "active", customRole[x].keys)
        /\ editor' = editor /\ holds' = holds
    BY <1>4 DEF R!Update, R!TypeOK, R!Row
  <2> HIDE DEF x
  <2>2. /\ customRole'[x].status = "active" /\ customRole'[x].keys = customRole[x].keys
        /\ \A y \in Role : y # x => customRole'[y] = customRole[y]
    <3>1. customRole'[x] = [status |-> "active", version |-> customRole[x].version + 1,
                            keys |-> customRole[x].keys]
      BY <2>1, RowWritten
    <3> QED
      BY <2>1, <3>1, RowWritten
  <2>3. \A y \in holds[m] : /\ customRole[y].status = "active" /\ customRole'[y].status = "active"
                            /\ customRole'[y].keys = customRole[y].keys
    BY <2>1, <2>2 DEF ArchivedRolesAreHeldByNobody, R!ArchivedRolesAreHeldByNobody
  <2>4. R!Keys(m)' = R!Keys(m)
    <3>1. {y \in holds[m] : customRole[y].status = "active"} = holds[m]
      BY <2>3
    <3>2. {y \in holds'[m] : customRole'[y].status = "active"} = holds[m]
      BY <2>1, <2>3
    <3> QED
      BY <2>3, <3>1, <3>2 DEF R!Keys
  <2> HIDE DEF R!Keys
  <2> QED
    BY <2>1, <2>4 DEF Same, R!Authority, R!TypeOK
<1>5. ASSUME NEW r \in Edit, R!Replace(r) \/ R!Archive(r) PROVE Same(m)
  <2> DEFINE x == edit[r].role
  <2>1. /\ x \in Role /\ holds[m] \subseteq Role /\ editPc[r] = "holders"
        /\ editor' = R!Raised(R!ActiveOf(found[r]))
        /\ \E s \in {"active", "archived"}, K \in SUBSET Permission : R!NextRow(x, s, K)
        /\ m \notin found[r] => holds'[m] = holds[m]
        /\ R!Archive(r) => edit[r].kind = "archive"
    BY <1>5 DEF R!Replace, R!Archive, R!TypeOK, R!Row
  <2> HIDE DEF x
  <2>2. \A y \in Role : y # x => customRole'[y] = customRole[y]
    BY <2>1, RowWritten
  <2>3. CASE m \in R!ActiveOf(found[r])
    BY <2>1, <2>3, RaisedNew
  <2>4. CASE m \notin R!ActiveOf(found[r])
    <3>1. editor'[m] = editor[m]
      BY <2>1, <2>4, RaisedIs
    <3>2. CASE editor[m].status # "active"
      BY <3>1, <3>2 DEF Same, R!TypeOK
    <3>3. CASE editor[m].status = "active"
      <4>1. m \notin found[r] /\ x \notin holds[m]
        BY <2>1, <2>4, <3>3 DEF R!ActiveOf, FoundAll, R!Holders, x
      <4>2. \A y \in holds[m] : customRole'[y] = customRole[y]
        BY <2>1, <2>2, <4>1
      <4> QED
        BY <2>1, <3>1, <4>1, <4>2, SameKeys
    <3> QED
      BY <3>2, <3>3
  <2> QED
    BY <2>3, <2>4
<1>6. ASSUME NEW r \in Edit, R!Grant(r) \/ R!Revoke(r) PROVE Same(m)
  <2>1. /\ customRole' = customRole /\ editor' = R!Raised({edit[r].target})
        /\ m # edit[r].target => holds'[m] = holds[m]
    BY <1>6 DEF R!Grant, R!Revoke, R!TypeOK
  <2>2. CASE m = edit[r].target
    BY <2>1, <2>2, RaisedNew
  <2>3. CASE m # edit[r].target
    <3>1. editor'[m] = editor[m]
      BY <2>1, <2>3, RaisedIs
    <3> QED
      BY <2>1, <2>3, <3>1, SameKeys
  <2> QED
    BY <2>2, <2>3
<1>7. ASSUME NEW r \in Edit,
             \/ R!LookAtRow(r) \/ R!LookAtKeys(r) \/ R!Guard(r) \/ R!ListHolders(r) \/ R!LockHolder(r)
             \/ Entered(r) \/ Checked(r) \/ RoleLocked(r) \/ TargetLocked(r) \/ Finished(r)
      PROVE  UNCHANGED <<customRole, holds, editor>>
  BY <1>7 DEF R!LookAtRow, R!LookAtKeys, R!Guard, R!ListHolders, R!LockHolder, R!tables,
              Entered, Checked, RoleLocked, TargetLocked, Finished, Unmoved
<1>8. CASE UNCHANGED rbac
  BY <1>1, <1>8 DEF rbac
<1> QED
  BY <1>1, <1>2, <1>3, <1>4, <1>5, <1>6, <1>7, <1>8, RequestEffects DEF R!Next

\* An authorization grows old, or stays true.
LEMMA AuthorizedStep ==
  ASSUME RbacInv, [R!Next]_rbac
  PROVE  Authorized'
<1> USE DEF RbacInv
<1>1. SUFFICES ASSUME NEW r \in Edit, editPc'[r] \notin {"new", "look", "guard", "refused"}
               PROVE  /\ (context[r].version <= editor[edit[r].actor].version)'
                      /\ (context[r].version = editor[edit[r].actor].version)' =>
                           /\ (editor[edit[r].actor].status = "active")'
                           /\ (context[r] = R!Authority(edit[r].actor))'
  BY DEF Authorized
<1> DEFINE a == edit[r].actor
<1>2. a \in Editor /\ context[r].version \in Nat /\ editor[a].version \in Nat /\ editor'[a].version \in Nat
  BY RbacTypesStep DEF R!TypeOK
<1>3. Same(a)
  BY <1>2, VersionsMove
<1>4. CASE editPc[r] \notin {"new", "look", "guard", "refused"}
  <2>1. edit'[r] = edit[r] /\ context'[r] = context[r]
    BY <1>4, OthersLook
  <2>2. /\ context[r].version <= editor[a].version
        /\ context[r].version = editor[a].version =>
             editor[a].status = "active" /\ context[r] = R!Authority(a)
    BY <1>4 DEF Authorized
  <2>3. R!Authority(edit[r].actor)' = R!Authority(a)'
    BY <2>1 DEF R!Authority, R!Keys
  <2> QED
    BY <1>2, <1>3, <2>1, <2>2, <2>3 DEF Same
<1>5. CASE editPc[r] \in {"new", "look", "guard", "refused"}
  <2>1. R!Guard(r) /\ editPc'[r] = "enter"
    BY <1>1, <1>5, LooksOrEnters
  <2>2. /\ context' = [context EXCEPT ![r] = R!Authority(a)] /\ edit' = edit
        /\ editor[a].status = "active" /\ UNCHANGED <<customRole, holds, editor>>
    BY <2>1 DEF R!Guard, R!Go, R!TypeOK, R!tables
  <2>3. context'[r] = R!Authority(a)
    BY <2>2 DEF R!TypeOK
  <2>4. R!Authority(edit[r].actor)' = R!Authority(a)
    BY <2>2 DEF R!Authority, R!Keys
  <2>5. R!Authority(a).version = editor[a].version
    BY DEF R!Authority
  <2> QED
    BY <1>2, <2>2, <2>3, <2>4, <2>5
<1> QED
  BY <1>4, <1>5

LEMMA RbacStarts == R!Init => RbacInv
<1> SUFFICES ASSUME R!Init PROVE RbacInv
  OBVIOUS
<1>1. \A r \in Edit : /\ editPc[r] = "new" /\ locked[r] = {} /\ found[r] = {}
                      /\ ~R!Started(r) /\ ~R!HasRole(r)
  BY DEF R!Init, R!Started, R!HasRole
<1>2. Stages /\ RoleLocks /\ MemberLocks /\ Exact /\ FoundAll /\ SeenAsOf /\ Authorized
  BY <1>1 DEF Stages, RoleLocks, MemberLocks, Exact, FoundAll, SeenAsOf, Authorized
<1>3. \A m \in Editor : holds[m] \in SUBSET {x \in Role : customRole[x].status = "active"}
  BY DEF R!Init
<1>4. ArchivedRolesAreHeldByNobody
  BY <1>3 DEF ArchivedRolesAreHeldByNobody, R!ArchivedRolesAreHeldByNobody
<1>5. R!NoRole \in R!Row
  BY DEF R!NoRole, R!Row
<1>6. customRole \in [Role -> R!Row]
  <2>1. \A x \in Role : customRole[x] \in R!Row
    <3> SUFFICES ASSUME NEW x \in Role PROVE customRole[x] \in R!Row
      OBVIOUS
    <3>1. customRole[x] = R!NoRole \/ customRole[x] \in [status : {"active"}, version : {1}, keys : SUBSET Permission]
      BY DEF R!Init
    <3> QED
      BY <1>5, <3>1 DEF R!Row
  <2> QED
    BY <2>1 DEF R!Init
<1>7. holds \in [Editor -> SUBSET Role]
  BY <1>3 DEF R!Init
<1>8. editor \in [Editor -> [status : {"active", "suspended"}, owner : BOOLEAN, version : Nat]]
  BY DEF R!Init
<1>9. (CHOOSE x \in Role : TRUE) \in Role /\ (CHOOSE m \in Editor : TRUE) \in Editor
  BY AuthorityAssumption
<1>10. edit \in [Edit -> [kind : R!Kinds, role : Role, keys : SUBSET Permission,
                          actor : Editor, target : Editor]]
  BY <1>9 DEF R!Init, R!Kinds
<1>11. context \in [Edit -> [version : Nat, owner : BOOLEAN, keys : SUBSET Permission]]
  <2> DEFINE n == CHOOSE m \in Editor : TRUE
  <2>1. \A x \in Role : customRole[x].keys \in SUBSET Permission
    BY <1>6 DEF R!Row
  <2>2. R!Keys(n) \in SUBSET Permission /\ editor[n].version \in Nat /\ editor[n].owner \in BOOLEAN
    BY <1>7, <1>8, <1>9, <2>1 DEF R!Keys
  <2>3. context \in [Edit -> {R!Authority(n)}]
    BY DEF R!Init
  <2> HIDE DEF n, R!Keys
  <2>4. R!Authority(n) \in [version : Nat, owner : BOOLEAN, keys : SUBSET Permission]
    BY <2>2 DEF R!Authority
  <2> QED
    BY <2>3, <2>4
<1>12. /\ seen \in [Edit -> R!Row] /\ editPc \in [Edit -> R!Label]
       /\ found \in [Edit -> SUBSET Editor] /\ locked \in [Edit -> SUBSET Editor]
  BY <1>5 DEF R!Init, R!Label
<1>13. R!TypeOK
  BY <1>6, <1>7, <1>8, <1>10, <1>11, <1>12 DEF R!TypeOK
<1> QED
  BY <1>2, <1>4, <1>13 DEF RbacInv

LEMMA RbacSteps == RbacInv /\ [R!Next]_rbac => RbacInv'
BY RbacTypesStep, StagesStep, RoleLocksStep, MemberLocksStep, ExactStep, FoundAllStep,
   SeenAsOfStep, AuthorizedStep, ArchivedRolesAreHeldByNobodyStep DEF RbacInv

\* Roles, locks and authorizations fit together, however edits interleave.
THEOREM RbacInductive == AuthoritySpec => []RbacInv
<1>1. AuthorityInit => RbacInv
  BY RbacStarts DEF AuthorityInit
<1>2. RbacInv /\ [AuthorityNext]_<<part, vars, rbac, csrf, pages, create>> => RbacInv'
  BY EachItsOwn, RbacSteps
<1> QED
  BY <1>1, <1>2, PTL DEF AuthoritySpec

\* Granting and archiving race, and nobody is left with an archived role.
THEOREM NobodyHoldsAnArchivedRole == AuthoritySpec => []ArchivedRolesAreHeldByNobody
<1>1. RbacInv => ArchivedRolesAreHeldByNobody
  BY DEF RbacInv
<1> QED
  BY <1>1, RbacInductive, PTL

(* A version stands for an authority: for system roles by the proofs of    *)
(* TenantOwnership, for custom roles by the invariant above.               *)
THEOREM VersionsTell == AuthoritySpec => []VersionsTellAuthority
<1>1. AuthoritySpec => Spec
  <2>1. AuthorityInit => Init
    BY DEF AuthorityInit
  <2>2. [AuthorityNext]_<<part, vars, rbac, csrf, pages, create>> => [Next]_vars
    BY EachItsOwn
  <2> QED
    BY <2>1, <2>2, PTL DEF AuthoritySpec, Spec
<1>2. RbacInv => R!VersionTellsAuthority
  BY DEF RbacInv, Authorized, R!VersionTellsAuthority
<1>3. VersionTellsAuthority /\ R!VersionTellsAuthority => VersionsTellAuthority
  BY DEF VersionsTellAuthority
<1> QED
  BY <1>1, <1>2, <1>3, VersionTellsAuthorityProved, RbacInductive, PTL

\* A change commits under the authority it was checked against.
THEOREM ActsOnCurrent == AuthoritySpec => ActsOnCurrentAuthority
<1> DEFINE A == \A r \in Edit : editPc[r] \in {"write", "holders"} /\ editPc'[r] = "ok" =>
                  /\ editor[edit[r].actor].status = "active"
                  /\ context[r] = R!Authority(edit[r].actor)
<1>1. RbacInv => A
  BY DEF RbacInv, Exact, Authorized, R!Started
<1>2. ActsOnCurrentAuthority <=> [][A]_rbac
  BY DEF ActsOnCurrentAuthority, R!ActsOnCurrentAuthority, R!vars, R!tables, R!memory, rbac
<1> QED
  BY <1>1, <1>2, RbacInductive, PTL

(* Permissions are replaced, and roles archived, as their author saw them. *)
THEOREM NothingIsOverwrittenUnseen == AuthoritySpec => NoChangeIsOverwrittenUnseen
<1> DEFINE A == \A r \in Edit : editPc[r] = "holders" /\ editPc'[r] = "ok" =>
                  customRole[edit[r].role].keys = seen[r].keys
<1>1. RbacInv => A
  <2>1. SUFFICES ASSUME RbacInv, NEW r \in Edit, editPc[r] = "holders"
                 PROVE  customRole[edit[r].role].keys = seen[r].keys
    OBVIOUS
  <2>2. edit[r].kind \in R!Versioned /\ R!HasRole(r)
    BY <2>1 DEF RbacInv, Stages, R!Versioned, R!HasRole, R!Started
  <2> QED
    BY <2>1, <2>2 DEF RbacInv, SeenAsOf
<1>2. NoChangeIsOverwrittenUnseen <=> [][A]_rbac
  BY DEF NoChangeIsOverwrittenUnseen, R!NoChangeIsOverwrittenUnseen, R!vars, R!tables, R!memory, rbac
<1> QED
  BY <1>1, <1>2, RbacInductive, PTL

-----------------------------------------------------------------------------
(* ConsolePages. *)

\* Loads begin one after the other, and what was shown has begun.
InOrder ==
  /\ \E k \in 0..MaxLoads : P!Started = 1..k
  /\ \A i \in 1..MaxLoads : load[i].stage = "new" => load[i].list = P!NoList
  /\ latest = 0 \/ latest \in P!Started

\* The load that a change waits for is in flight.
Awaited == doing.stage = "loading" => doing.load \in 1..MaxLoads /\ P!InFlight(doing.load)

\* A change is under way, or an error is on display.
Busy == \/ doing.stage \notin {"none", "loading"} \/ inviting.stage # "none"
        \/ told.page \/ told.form

\* A list that misses a change of the page's own gives way to one that began
\* later, unless that has been shown already.
Newer(n) == \E j \in 1..MaxLoads : P!InFlight(j) /\ n < j
OwnWork ==
  /\ \A i \in 1..MaxLoads :
       P!InFlight(i) /\ load[i].list.misses => Busy \/ i < latest \/ Newer(i)
  /\ shown.misses => Busy \/ shownBy < latest \/ Newer(latest)

\* A list holds what it was read from, but for the members that changed since.
ReadStatus(l) ==
  l.there => \A m \in Person \ l.moved :
    l.rows[m].status = standing[m] /\ (m = Viewer => standing[m] = "active")
ReadRole(l) == l.there => \A m \in Person \ l.moved : l.rows[m].role = systemRole[m]
AsRead ==
  /\ \A i \in 1..MaxLoads : load[i].stage \in {"roles", "answer"} => load[i].list.there
  /\ \A i \in 1..MaxLoads : load[i].stage = "roles" => page = "members"
  /\ page = "members" =>
       /\ ReadStatus(shown) /\ ReadRole(shown)
       /\ \A i \in 1..MaxLoads : /\ ReadStatus(load[i].list)
                                 /\ load[i].stage = "answer" => ReadRole(load[i].list)

\* A change on its way is permitted, unless one it depends on has changed.
Suits(kind, m) ==
  /\ standing[Viewer] = "active" /\ m # Viewer
  /\ kind \in {"promote", "demote"} => systemRole[Viewer] = "owner"
  /\ \/ kind \in {"suspend", "promote"} /\ standing[m] = "active" /\ systemRole[m] = "admin"
     \/ kind = "revoke" /\ standing[m] \in {"active", "suspended"} /\ systemRole[m] = "admin"
     \/ kind = "demote" /\ standing[m] = "active" /\ systemRole[m] = "owner"
Suited(q) ==
  q.stage = "sent" =>
    /\ q.kind = "invite" \/ page = "members" => q.target \in Person
    /\ page = "members" /\ q.kind # "invite" /\ {Viewer, q.target} \cap q.moved = {} =>
         Suits(q.kind, q.target)
OnItsWay == Suited(doing) /\ \A n \in 1..MaxLate : Suited(late[n])
AdminsOnly == \A m \in Person : standing[m] = "suspended" => systemRole[m] = "admin"

PagesInv == /\ P!TypeOK /\ InOrder /\ Awaited /\ OwnWork
            /\ AsRead /\ OnItsWay /\ AdminsOnly /\ dead = FALSE

\* A change on its way that nothing it depends on has disturbed is permitted.
LEMMA SuitingIsPermitted ==
  ASSUME NEW kind, NEW m \in Person, Suits(kind, m)
  PROVE  P!Permits(kind, Viewer, m)
<1>1. Viewer \in Person
  BY AuthorityAssumption
<1>2. kind \in {"promote", "demote"} => Viewer \in P!Owners
  BY <1>1 DEF P!Owners, Suits
<1>3. CASE kind \in {"suspend", "revoke"}
  BY <1>3 DEF Suits, P!Permits
<1>4. CASE kind = "promote"
  BY <1>2, <1>4 DEF Suits, P!Permits
<1>5. CASE kind = "demote"
  <2>1. m \in P!Owners /\ P!Owners # {m}
    BY <1>2, <1>5 DEF Suits, P!Owners
  <2> QED
    BY <1>2, <1>5, <2>1 DEF Suits, P!Permits
<1> QED
  BY <1>3, <1>4, <1>5 DEF Suits

\* What the page offers is so, as far as its list is still true.
LEMMA OffersSuit ==
  ASSUME P!TypeOK, AsRead, page = "members", shown.there, NEW m \in Person, NEW kind,
         kind \in {"suspend", "revoke", "promote", "demote"}, AdminsOnly,
         P!Offers(kind, m), {Viewer, m} \cap shown.moved = {}
  PROVE  Suits(kind, m)
<1>1. Viewer \in Person /\ Viewer \notin shown.moved /\ m \notin shown.moved
  BY AuthorityAssumption
<1>2. /\ shown.rows[m].status = standing[m] /\ shown.rows[m].role = systemRole[m]
      /\ shown.rows[Viewer].role = systemRole[Viewer] /\ standing[Viewer] = "active"
  BY <1>1 DEF AsRead, ReadStatus, ReadRole
<1>3. m # Viewer
  BY DEF P!Offers
<1>4. CASE kind = "suspend"
  BY <1>2, <1>3, <1>4 DEF P!Offers, Suits
<1>5. CASE kind = "revoke"
  BY <1>2, <1>3, <1>5 DEF P!Offers, Suits, AdminsOnly
<1>6. CASE kind = "promote"
  BY <1>2, <1>3, <1>6 DEF P!Offers, Suits
<1>7. CASE kind = "demote"
  BY <1>2, <1>3, <1>7 DEF P!Offers, Suits
<1> QED
  BY <1>4, <1>5, <1>6, <1>7

LEMMA PagesStart == P!Init => PagesInv
<1> SUFFICES ASSUME P!Init PROVE PagesInv
  OBVIOUS
<1> USE DEF P!Init
<1>1. /\ MaxLoads \in Nat /\ MaxLate \in Nat /\ MaxElsewhere \in Nat
      /\ Viewer \in Person /\ OwnDevice \in Device
  BY AuthorityAssumption
<1>2. P!NoList \in P!Lists
  BY DEF P!Lists, P!NoList, P!Roles, P!Statuses
<1>3. \A i \in 1..MaxLoads : load[i] = [stage |-> IF i = 1 THEN "me" ELSE "new", list |-> P!NoList]
  OBVIOUS
<1>4. P!TypeOK
  <2>1. systemRole \in [Person -> P!Roles] /\ standing \in [Person -> P!Statuses] /\ alive \subseteq Device
    BY DEF P!Roles, P!Statuses, P!None
  <2>2. shown \in P!Lists
    BY <1>2
  <2>3. load \in [1..MaxLoads -> [stage : {"new", "me", "list", "roles", "answer", "over"},
                                  list : P!Lists]]
    BY <1>2
  <2>4. /\ doing \in [stage : {"none", "sent", "done", "refused", "loading", "left"},
                kind : P!Kinds \cup {P!None}, target : Person \cup Device \cup {P!None},
                load : 0..MaxLoads, moved : SUBSET Person]
        /\ inviting \in [stage : {"none", "sent", "done"}, kind : {"invite", P!None},
                   target : Person \cup {P!None}, load : {0}, moved : {{}}]
    BY <1>1 DEF P!Idle
  <2>7. late \in [1..MaxLate -> [stage : {"none", "sent"}, kind : P!Kinds \cup {"invite", P!None},
                               target : Person \cup Device \cup {P!None},
                               load : 0..MaxLoads, moved : SUBSET Person]]
    BY <1>1 DEF P!Idle
  <2>6. inviting.stage # "sent"
    BY DEF P!Idle
  <2>5. /\ page \in {"members", "security"} /\ told \in [page : BOOLEAN, form : BOOLEAN]
        /\ elsewhere \in 0..MaxElsewhere /\ dead \in BOOLEAN
        /\ shownBy \in 0..MaxLoads /\ latest \in 0..MaxLoads
    <3>1. 0 \in 0..MaxElsewhere /\ 0 \in 0..MaxLoads
      BY ONLY <1>1
    <3>2. /\ elsewhere = 0 /\ told = [page |-> FALSE, form |-> FALSE] /\ dead = FALSE
          /\ shownBy = 0 /\ latest = 0
      OBVIOUS
    <3>3. page \in {"members", "security"}
      OBVIOUS
    <3> QED
      BY ONLY <3>1, <3>2, <3>3
  <2> QED
    BY ONLY <2>1, <2>2, <2>3, <2>4, <2>5, <2>6, <2>7 DEF P!TypeOK
<1>5. InOrder
  <2>0. \A i \in 1..MaxLoads : load[i].stage = "new" => load[i].list = P!NoList
    BY <1>3
  <2>1. P!Started = 1..(IF MaxLoads = 0 THEN 0 ELSE 1)
    BY <1>1, <1>3 DEF P!Started
  <2>2. \E k \in 0..MaxLoads : P!Started = 1..k
    BY ONLY <1>1, <2>1
  <2> QED
    BY <2>0, <2>2 DEF InOrder
<1>6. Awaited /\ OwnWork
  BY <1>3 DEF Awaited, OwnWork, P!Idle, P!NoList
<1>7. AsRead
  BY <1>3 DEF AsRead, ReadStatus, ReadRole, P!NoList
<1>8. OnItsWay /\ AdminsOnly /\ dead = FALSE
  BY DEF OnItsWay, Suited, AdminsOnly, P!Idle
<1> QED
  BY <1>4, <1>5, <1>6, <1>7, <1>8 DEF PagesInv

(* What happens to lists.                                                  *)

Entry == [stage : {"new", "me", "list", "roles", "answer", "over"}, list : P!Lists]

LEMMA ListTypes ==
  PagesInv => /\ load \in [1..MaxLoads -> Entry] /\ shown \in P!Lists
              /\ \A i \in 1..MaxLoads : load[i] \in Entry /\ load[i].list \in P!Lists
  BY DEF PagesInv, P!TypeOK, Entry

LEMMA Marked ==
  ASSUME NEW l \in P!Lists, NEW ms \in SUBSET Person, NEW own \in BOOLEAN
  PROVE  LET k == P!Behind(l, ms, own) IN
         /\ k \in P!Lists /\ k.there = l.there /\ k.rows = l.rows
         /\ l.there => k.moved = l.moved \cup ms /\ (k.misses <=> l.misses \/ own)
         /\ ~l.there => k = l
  BY DEF P!Lists, P!Behind

(* A load goes on: its list is read.                                       *)
LEMMA LoadGoesOn ==
  ASSUME PagesInv, NEW i \in 1..MaxLoads, P!InFlight(i),
         P!ReadMe(i) \/ P!ReadList(i) \/ P!ReadRoles(i)
  PROVE  PagesInv'
<1>0. /\ load \in [1..MaxLoads -> Entry] /\ shown \in P!Lists
      /\ load[i] \in Entry /\ load[i].list \in P!Lists
  BY ListTypes
<1>1. /\ \A j \in 1..MaxLoads : j # i => load'[j] = load[j]
      /\ UNCHANGED <<page, systemRole, standing, alive, elsewhere, shown, doing, inviting, late, told,
                     shownBy, latest, dead>>
  BY <1>0 DEF P!ReadMe, P!ReadList, P!ReadRoles, P!server, P!history
<1>2. /\ alive \subseteq Device
      /\ standing \in [Person -> P!Statuses] /\ systemRole \in [Person -> P!Roles]
      /\ page = "members" => ReadStatus(load[i].list)
      /\ load[i].stage \in {"roles", "answer"} => load[i].list.there
      /\ load[i].stage = "roles" => page = "members"
  BY DEF PagesInv, P!TypeOK, AsRead
<1>3. /\ load' \in [1..MaxLoads -> Entry]
      /\ load'[i].stage \in {"list", "roles", "answer"}
      /\ load'[i].list.moved = load[i].list.moved /\ load'[i].list.misses = load[i].list.misses
      /\ load'[i].stage \in {"roles", "answer"} => load'[i].list.there
      /\ load'[i].stage = "roles" => page = "members"
      /\ page = "members" => /\ ReadStatus(load[i].list)'
                             /\ load'[i].stage = "answer" => ReadRole(load[i].list)'
  <2>1. CASE P!ReadMe(i)
    <3>1. load'[i] \in Entry /\ load'[i].stage = "list" /\ load'[i].list = load[i].list
      BY <1>0, <2>1 DEF P!ReadMe, Entry
    <3>2. load' \in [1..MaxLoads -> Entry]
      BY <1>0, <2>1, <3>1 DEF P!ReadMe
    <3> QED
      BY <1>1, <1>2, <3>1, <3>2 DEF ReadStatus
  <2>2. CASE P!ReadList(i)
    <3> DEFINE rows == IF page = "members"
                         THEN [m \in Person |-> [status |-> standing[m], role |-> P!None]]
                         ELSE load[i].list.rows
               open == IF page = "members" THEN {} ELSE alive
               s == IF page = "members" THEN "roles" ELSE "answer"
    <3>1. load' = [load EXCEPT ![i] = [@ EXCEPT !.list.there = TRUE, !.list.rows = rows,
                                                !.list.open = open, !.stage = s]]
      BY <1>0, <2>2 DEF P!ReadList, Entry, P!Lists
    <3>2. /\ rows \in [Person -> [status : P!Statuses, role : P!Roles]]
          /\ open \in SUBSET Device /\ s \in {"roles", "answer"} /\ (s = "roles" <=> page = "members")
      BY <1>0, <1>2 DEF P!Roles, P!Lists
    <3>3. page = "members" => /\ \A m \in Person : rows[m].status = standing[m]
                              /\ standing[Viewer] = "active"
      BY <2>2 DEF P!ReadList
    <3> HIDE DEF rows, open, s
    <3>4. load'[i] = [load[i] EXCEPT !.list.there = TRUE, !.list.rows = rows,
                                     !.list.open = open, !.stage = s]
      BY <1>0, <3>1
    <3>5. /\ load'[i] \in Entry /\ load'[i].stage = s /\ load'[i].list.there
          /\ load'[i].list.rows = rows /\ load'[i].list.moved = load[i].list.moved
          /\ load'[i].list.misses = load[i].list.misses
      <4>1. load[i] \in Entry /\ load[i].list \in P!Lists
        BY <1>0
      <4> DEFINE e == load[i]
                 k == load'[i]
      <4>2. /\ e \in Entry /\ k = [e EXCEPT !.list.there = TRUE, !.list.rows = rows,
                                          !.list.open = open, !.stage = s]
        BY ONLY <3>4, <4>1
      <4> HIDE DEF e, k
      <4>3. /\ k \in Entry /\ k.stage = s /\ k.list.there /\ k.list.rows = rows
            /\ k.list.moved = e.list.moved /\ k.list.misses = e.list.misses
        BY ONLY <3>2, <4>2 DEF Entry, P!Lists
      <4> QED
        BY <4>3 DEF e, k
    <3>6. load' \in [1..MaxLoads -> Entry]
      BY <1>0, <3>1, <3>4, <3>5
    <3>7. page = "members" => ReadStatus(load[i].list)'
      BY <1>1, <3>3, <3>5 DEF ReadStatus
    <3> QED
      BY <3>2, <3>5, <3>6, <3>7
  <2>3. CASE P!ReadRoles(i)
    <3> DEFINE rows == [m \in Person |-> [load[i].list.rows[m] EXCEPT !.role = systemRole[m]]]
    <3>1. load' = [load EXCEPT ![i] = [@ EXCEPT !.stage = "answer", !.list.rows = rows]]
      BY <1>0, <2>3 DEF P!ReadRoles, Entry, P!Lists
    <3>2. load[i].list.there /\ load[i].list.rows \in [Person -> [status : P!Statuses, role : P!Roles]]
      BY <1>0, <1>2, <2>3 DEF P!ReadRoles, P!Lists
    <3>3. /\ rows \in [Person -> [status : P!Statuses, role : P!Roles]]
          /\ \A m \in Person : /\ rows[m].status = load[i].list.rows[m].status
                               /\ rows[m].role = systemRole[m]
      BY <1>2, <3>2
    <3> HIDE DEF rows
    <3>4. load'[i] = [load[i] EXCEPT !.stage = "answer", !.list.rows = rows]
      BY <1>0, <3>1
    <3>5. /\ load'[i] \in Entry /\ load'[i].stage = "answer" /\ load'[i].list.there
          /\ load'[i].list.rows = rows /\ load'[i].list.moved = load[i].list.moved
          /\ load'[i].list.misses = load[i].list.misses
      <4>1. load[i] \in Entry /\ load[i].list \in P!Lists
        BY <1>0
      <4> DEFINE e == load[i]
                 k == load'[i]
      <4>2. e \in Entry /\ k = [e EXCEPT !.stage = "answer", !.list.rows = rows]
        BY ONLY <3>4, <4>1
      <4>3. e.list.there
        BY ONLY <3>2
      <4> HIDE DEF e, k
      <4>4. /\ k \in Entry /\ k.stage = "answer" /\ k.list.there /\ k.list.rows = rows
            /\ k.list.moved = e.list.moved /\ k.list.misses = e.list.misses
        BY ONLY <3>3, <4>2, <4>3 DEF Entry, P!Lists
      <4> QED
        BY <4>4 DEF e, k
    <3>6. load' \in [1..MaxLoads -> Entry]
      BY <1>0, <3>1, <3>4, <3>5
    <3>7. page = "members" => ReadStatus(load[i].list)' /\ ReadRole(load[i].list)'
      BY <1>1, <1>2, <3>2, <3>3, <3>5 DEF ReadStatus, ReadRole
    <3> QED
      BY <3>5, <3>6, <3>7
  <2> QED
    BY <2>1, <2>2, <2>3
<1>5. \A j \in 1..MaxLoads : P!InFlight(j)' <=> P!InFlight(j)
  BY <1>1, <1>3 DEF P!InFlight
<1>6. P!TypeOK'
  BY <1>1, <1>3 DEF PagesInv, P!TypeOK, Entry
<1>7. InOrder'
  <2>1. P!Started' = P!Started
    BY <1>1, <1>3 DEF P!Started, P!InFlight
  <2> QED
    BY <1>1, <1>3, <2>1 DEF PagesInv, InOrder
<1>9. Awaited'
  BY <1>1, <1>5 DEF PagesInv, Awaited
<1>10. OwnWork'
  <2>1. Busy' <=> Busy
    BY <1>1 DEF Busy
  <2>2. \A j \in 1..MaxLoads : load'[j].list.misses = load[j].list.misses
    BY <1>1, <1>3
  <2>3. \A n : Newer(n)' <=> Newer(n)
    BY <1>5 DEF Newer
  <2> QED
    BY <1>1, <1>5, <2>1, <2>2, <2>3 DEF PagesInv, OwnWork
<1>11. AsRead'
  <2>1. \A j \in 1..MaxLoads : j # i =>
          /\ load'[j].stage \in {"roles", "answer"} => load'[j].list.there
          /\ load'[j].stage = "roles" => page' = "members"
          /\ page' = "members" => /\ ReadStatus(load[j].list)'
                                  /\ load'[j].stage = "answer" => ReadRole(load[j].list)'
    BY <1>1 DEF PagesInv, AsRead, ReadStatus, ReadRole
  <2>2. page' = "members" => ReadStatus(shown)' /\ ReadRole(shown)'
    BY <1>1 DEF PagesInv, AsRead, ReadStatus, ReadRole
  <2>3. /\ load'[i].stage \in {"roles", "answer"} => load'[i].list.there
        /\ load'[i].stage = "roles" => page' = "members"
        /\ page' = "members" => /\ ReadStatus(load[i].list)'
                                /\ load'[i].stage = "answer" => ReadRole(load[i].list)'
    BY <1>1, <1>3
  <2> QED
    BY <2>1, <2>2, <2>3 DEF AsRead
<1>12. OnItsWay' /\ AdminsOnly' /\ dead' = FALSE
  BY <1>1 DEF PagesInv, OnItsWay, Suited, AdminsOnly, Suits
<1> QED
  BY <1>6, <1>7, <1>9, <1>10, <1>11, <1>12 DEF PagesInv

(* A load ends: its list is shown, or it fails.                            *)
LEMMA LoadEnds ==
  ASSUME PagesInv, NEW i \in 1..MaxLoads, P!Arrive(i) \/ P!LoadFails(i)
  PROVE  PagesInv'
<1>1. /\ load' = [load EXCEPT ![i] = [stage |-> "over", list |-> P!NoList]]
      /\ doing' = IF doing.stage = "loading" /\ doing.load = i THEN P!Idle ELSE doing
      /\ UNCHANGED <<page, systemRole, standing, alive, elsewhere, inviting, late, dead>>
      /\ P!InFlight(i)
      /\ \/ /\ shown' = load[i].list /\ told' = told
            /\ shownBy' = i /\ latest' = (IF i > latest THEN i ELSE latest)
         \/ /\ shown' \in {P!NoList, shown} /\ told' = [told EXCEPT !.page = TRUE]
            /\ shownBy' = shownBy /\ latest' = latest
  BY DEF P!Arrive, P!LoadFails, P!Over, P!server, P!history, P!InFlight
<1>4. /\ MaxLoads \in Nat /\ latest \in 0..MaxLoads /\ shownBy \in 0..MaxLoads
      /\ latest' \in 0..MaxLoads /\ shownBy' \in 0..MaxLoads
  <2>1. MaxLoads \in Nat /\ latest \in 0..MaxLoads /\ shownBy \in 0..MaxLoads
    BY AuthorityAssumption DEF PagesInv, P!TypeOK
  <2> QED
    BY ONLY <1>1, <2>1
<1>2. /\ \A j \in 1..MaxLoads : j # i => load'[j] = load[j]
      /\ load'[i].stage = "over" /\ load'[i].list = P!NoList
      /\ load' \in [1..MaxLoads -> Entry] /\ load[i].list \in P!Lists
      /\ P!NoList \in P!Lists
  <2>1. P!NoList \in P!Lists
    BY DEF P!Lists, P!NoList, P!Roles, P!Statuses
  <2> QED
    BY <1>1, <2>1, ListTypes DEF Entry
<1>3. \A j \in 1..MaxLoads : P!InFlight(j)' <=> j # i /\ P!InFlight(j)
  BY <1>2 DEF P!InFlight
<1>5. P!TypeOK'
  <2>1. /\ doing' \in [stage : {"none", "sent", "done", "refused", "loading", "left"},
                kind : P!Kinds \cup {P!None}, target : Person \cup Device \cup {P!None},
                load : 0..MaxLoads, moved : SUBSET Person]
    <3>1. P!Idle \in [stage : {"none", "sent", "done", "refused", "loading", "left"},
                kind : P!Kinds \cup {P!None}, target : Person \cup Device \cup {P!None},
                load : 0..MaxLoads, moved : SUBSET Person]
      BY AuthorityAssumption DEF P!Idle
    <3> QED
      BY <1>1, <3>1 DEF PagesInv, P!TypeOK
  <2>2. told' \in [page : BOOLEAN, form : BOOLEAN]
    BY <1>1 DEF PagesInv, P!TypeOK
  <2>3. shown' \in P!Lists
    BY <1>1, <1>2, ListTypes
  <2> QED
    BY <1>1, <1>2, <1>4, <2>1, <2>2, <2>3 DEF PagesInv, P!TypeOK, Entry
<1>6. InOrder'
  <2>1. P!Started' = P!Started
    BY <1>1, <1>2 DEF P!Started, P!InFlight
  <2>2. i \in P!Started
    BY <1>1 DEF P!Started, P!InFlight
  <2>3. latest' = 0 \/ latest' \in P!Started
    BY <1>1, <2>2 DEF PagesInv, InOrder
  <2> QED
    BY <1>2, <2>1, <2>3 DEF PagesInv, InOrder
<1>8. Awaited'
  BY <1>1, <1>3 DEF PagesInv, Awaited, P!Idle
<1>9. OwnWork'
  <2>1. Busy => Busy'
    BY <1>1 DEF Busy, PagesInv, P!TypeOK, P!Idle
  <2>2. CASE told' = [told EXCEPT !.page = TRUE]
    BY <2>2 DEF PagesInv, P!TypeOK, OwnWork, Busy
  <2>3. CASE shown' = load[i].list /\ shownBy' = i /\ latest' = (IF i > latest THEN i ELSE latest)
    <3>1. ASSUME NEW j \in 1..MaxLoads, P!InFlight(j)', load'[j].list.misses
          PROVE  Busy' \/ j < latest' \/ Newer(j)'
      <4>1. j # i /\ P!InFlight(j) /\ load[j].list.misses
        BY <1>2, <1>3, <3>1
      <4>2. CASE j < latest
        BY <1>4, <2>3, <4>2
      <4>3. ASSUME NEW k \in 1..MaxLoads, P!InFlight(k), j < k
            PROVE  j < latest' \/ Newer(j)'
        <5>1. CASE k = i
          BY <1>4, <2>3, <4>3, <5>1
        <5>2. CASE k # i
          BY <1>3, <4>3, <5>2 DEF Newer
        <5> QED
          BY <5>1, <5>2
      <4> QED
        BY <2>1, <4>1, <4>2, <4>3 DEF PagesInv, OwnWork, Newer
    <3>2. ASSUME shown'.misses, ~(shownBy' < latest')
          PROVE  Busy' \/ Newer(latest)'
      <4>1. latest' = i /\ ~(i < latest) /\ load[i].list.misses
        BY <1>4, <2>3, <3>2
      <4>2. Busy \/ Newer(i)
        BY <1>1, <4>1 DEF PagesInv, OwnWork
      <4>3. ASSUME NEW k \in 1..MaxLoads, P!InFlight(k), i < k
            PROVE  Newer(latest)'
        <5>1. k # i /\ latest' < k
          BY <4>1, <4>3
        <5> QED
          BY <1>3, <4>3, <5>1 DEF Newer
      <4> QED
        BY <2>1, <4>2, <4>3 DEF Newer
    <3> QED
      BY <3>1, <3>2 DEF OwnWork
  <2> QED
    BY <1>1, <2>2, <2>3
<1>10. AsRead'
  <2>1. \A j \in 1..MaxLoads : j # i =>
          /\ load'[j].stage \in {"roles", "answer"} => load'[j].list.there
          /\ load'[j].stage = "roles" => page' = "members"
          /\ page' = "members" => /\ ReadStatus(load[j].list)'
                                  /\ load'[j].stage = "answer" => ReadRole(load[j].list)'
    BY <1>1, <1>2 DEF PagesInv, AsRead, ReadStatus, ReadRole
  <2>2. ReadStatus(P!NoList)' /\ ReadRole(P!NoList)'
    BY DEF ReadStatus, ReadRole, P!NoList
  <2>3. page' = "members" => ReadStatus(shown)' /\ ReadRole(shown)'
    <3>1. CASE shown' = load[i].list
      <4>1. load[i].stage = "answer" \/ shown' = shown \/ shown' = P!NoList
        BY <3>1 DEF P!Arrive, P!LoadFails
      <4> QED
        BY <1>1, <2>2, <3>1, <4>1 DEF PagesInv, AsRead, ReadStatus, ReadRole
    <3>2. CASE shown' \in {P!NoList, shown}
      BY <1>1, <2>2, <3>2 DEF PagesInv, AsRead, ReadStatus, ReadRole
    <3> QED
      BY <1>1, <3>1, <3>2
  <2>4. ReadStatus(load[i].list)' /\ ReadRole(load[i].list)'
    BY <1>2, <2>2 DEF ReadStatus, ReadRole
  <2> QED
    BY <1>2, <2>1, <2>3, <2>4 DEF AsRead
<1>11. OnItsWay' /\ AdminsOnly' /\ dead' = FALSE
  BY <1>1 DEF PagesInv, OnItsWay, Suited, AdminsOnly, Suits, P!Idle
<1> QED
  BY <1>5, <1>6, <1>8, <1>9, <1>10, <1>11 DEF PagesInv

(* A load begins: it is the next one, later than those in flight.          *)
LEMMA NextLoad ==
  ASSUME PagesInv, P!Started # 1..MaxLoads
  PROVE  /\ P!Fresh \in 1..MaxLoads /\ load[P!Fresh].stage = "new"
         /\ P!Started = 1..(P!Fresh - 1)
<1>0. MaxLoads \in Nat
  BY AuthorityAssumption
<1>1. PICK k \in 0..MaxLoads : P!Started = 1..k
  BY DEF PagesInv, InOrder
<1>2. k + 1 \in 1..MaxLoads
  BY <1>0, <1>1
<1>3. load[k + 1].stage = "new" /\ 1..((k + 1) - 1) \subseteq P!Started
  <2>1. k + 1 \notin P!Started
    BY <1>0, <1>1
  <2> QED
    BY <1>0, <1>1, <1>2, <2>1 DEF P!Started
<1>4. \E i \in 1..MaxLoads : load[i].stage = "new" /\ 1..(i - 1) \subseteq P!Started
  BY <1>2, <1>3
<1>5. /\ P!Fresh \in 1..MaxLoads /\ load[P!Fresh].stage = "new"
      /\ 1..(P!Fresh - 1) \subseteq P!Started
  BY <1>4 DEF P!Fresh
<1>6. P!Fresh \notin P!Started
  BY <1>5 DEF P!Started
<1>7. P!Fresh = k + 1
  BY <1>0, <1>1, <1>5, <1>6
<1> QED
  BY <1>0, <1>1, <1>5, <1>7

LEMMA LoadBegins ==
  ASSUME PagesInv, (P!Answered /\ doing.kind # "logout") \/ P!Invited
  PROVE  PagesInv'
<1> DEFINE new == P!Fresh
<1>0. /\ new \in 1..MaxLoads /\ load[new].stage = "new" /\ P!Started = 1..(new - 1)
      /\ ~P!InFlight(new) /\ load[new].list = P!NoList
  <2>1. P!Started # 1..MaxLoads
    BY DEF P!Answered, P!Invited
  <2> QED
    BY <2>1, NextLoad DEF P!InFlight, PagesInv, InOrder
<1>1. /\ UNCHANGED <<page, systemRole, standing, alive, elsewhere, shown, late, shownBy, latest, dead>>
      /\ told' = [told EXCEPT !.page = FALSE] /\ load' = [load EXCEPT ![new].stage = "me"]
      /\ \/ inviting' = inviting /\ doing' = [doing EXCEPT !.stage = "loading", !.load = new]
         \/ inviting' = P!Idle /\ doing' = doing
  BY DEF P!Answered, P!Invited, P!Begun, P!server, P!history
<1> HIDE DEF new
<1>2. MaxLoads \in Nat /\ latest \in 0..MaxLoads
  BY AuthorityAssumption DEF PagesInv, P!TypeOK
<1>30. load \in [1..MaxLoads -> Entry] /\ shown \in P!Lists
  BY ListTypes
<1>31. /\ load' \in [1..MaxLoads -> Entry]
       /\ load'[new].stage = "me" /\ load'[new].list = P!NoList
       /\ \A j \in 1..MaxLoads : j # new => load'[j] = load[j]
  BY <1>0, <1>1, <1>30 DEF Entry
<1>6. \A j \in 1..MaxLoads : P!InFlight(j)' <=> j = new \/ P!InFlight(j)
  BY <1>0, <1>31 DEF P!InFlight
<1>7. P!TypeOK'
  <2>1. doing' \in [stage : {"none", "sent", "done", "refused", "loading", "left"},
                kind : P!Kinds \cup {P!None}, target : Person \cup Device \cup {P!None},
                load : 0..MaxLoads, moved : SUBSET Person]
    <3>1. new \in 0..MaxLoads
      BY <1>0, AuthorityAssumption
    <3>2. doing \in [stage : {"none", "sent", "done", "refused", "loading", "left"},
                kind : P!Kinds \cup {P!None}, target : Person \cup Device \cup {P!None},
                load : 0..MaxLoads, moved : SUBSET Person]
      BY DEF PagesInv, P!TypeOK
    <3> QED
      BY ONLY <1>1, <3>1, <3>2
  <2>2. /\ told' \in [page : BOOLEAN, form : BOOLEAN]
        /\ inviting' \in [stage : {"none", "sent", "done"}, kind : {"invite", P!None},
                          target : Person \cup {P!None}, load : {0}, moved : {{}}]
    <3>1. /\ told \in [page : BOOLEAN, form : BOOLEAN]
          /\ inviting \in [stage : {"none", "sent", "done"}, kind : {"invite", P!None},
                            target : Person \cup {P!None}, load : {0}, moved : {{}}]
      BY DEF PagesInv, P!TypeOK
    <3>2. told' = [told EXCEPT !.page = FALSE] /\ inviting' \in {inviting, P!Idle}
      BY <1>1
    <3>3. P!Idle = [stage |-> "none", kind |-> P!None, target |-> P!None, load |-> 0, moved |-> {}]
      BY DEF P!Idle
    <3>4. told' \in [page : BOOLEAN, form : BOOLEAN]
      BY ONLY <3>1, <3>2
    <3>5. P!Idle \in [stage : {"none", "sent", "done"}, kind : {"invite", P!None},
                      target : Person \cup {P!None}, load : {0}, moved : {{}}]
      BY ONLY <3>3
    <3> QED
      BY ONLY <3>1, <3>2, <3>4, <3>5
  <2>3. inviting'.stage = "sent" => inviting'.kind = "invite" /\ inviting'.target \in Person
    BY <1>1 DEF PagesInv, P!TypeOK, P!Idle
  <2> QED
    BY <1>1, <1>30, <1>31, <2>1, <2>2, <2>3 DEF PagesInv, P!TypeOK, Entry
<1>8. InOrder'
  <2>1. P!Started' = 1..new
    <3>1. P!Started' = P!Started \cup {new}
      BY <1>0, <1>31 DEF P!Started
    <3> QED
      BY <1>0, <3>1, AuthorityAssumption
  <2>2. \A j \in 1..MaxLoads : load'[j].stage = "new" => load'[j].list = P!NoList
    BY <1>31 DEF PagesInv, InOrder
  <2>3. latest' = 0 \/ latest' \in 1..new
    BY <1>0, <1>1, <1>2 DEF PagesInv, InOrder
  <2> QED
    BY <1>0, <2>1, <2>2, <2>3, AuthorityAssumption DEF InOrder
<1>10. Awaited'
  BY <1>0, <1>1, <1>6 DEF PagesInv, P!TypeOK, Awaited
<1>11. OwnWork'
  <2>1. /\ \A j \in 1..MaxLoads : j = new => P!InFlight(j)'
        /\ ~load'[new].list.misses
    BY <1>6, <1>31 DEF P!NoList
  <2>2. ASSUME NEW j \in 1..MaxLoads, P!InFlight(j)
        PROVE  j < new
    <3>1. j \in 1..(new - 1)
      BY <1>0, <2>2 DEF P!Started, P!InFlight
    <3> QED
      BY <1>0, <3>1
  <2>3. latest' < new
    BY <1>0, <1>1, <1>2 DEF PagesInv, InOrder
  <2>4. \A j \in 1..MaxLoads : P!InFlight(j)' /\ load'[j].list.misses => Newer(j)'
    BY <1>0, <1>6, <2>1, <2>2 DEF Newer
  <2>5. Newer(latest)'
    <3>1. PICK j \in 1..MaxLoads : j = new
      BY <1>0
    <3> QED
      BY <2>1, <2>3, <3>1 DEF Newer
  <2> QED
    BY <2>4, <2>5 DEF OwnWork
<1>12. AsRead'
  <2>1. ASSUME NEW j \in 1..MaxLoads
        PROVE  /\ load'[j].stage \in {"roles", "answer"} => load'[j].list.there
               /\ load'[j].stage = "roles" => page' = "members"
               /\ page' = "members" => /\ ReadStatus(load[j].list)'
                                       /\ load'[j].stage = "answer" => ReadRole(load[j].list)'
    <3>1. CASE j = new
      BY <1>31, <3>1 DEF ReadStatus, ReadRole, P!NoList
    <3>2. CASE j # new
      BY <1>1, <1>31, <3>2 DEF PagesInv, AsRead, ReadStatus, ReadRole
    <3> QED
      BY <3>1, <3>2
  <2>2. page' = "members" => ReadStatus(shown)' /\ ReadRole(shown)'
    BY <1>1 DEF PagesInv, AsRead, ReadStatus, ReadRole
  <2> QED
    BY <2>1, <2>2 DEF AsRead
<1>13. OnItsWay' /\ AdminsOnly' /\ dead' = FALSE
  BY <1>1 DEF PagesInv, P!TypeOK, OnItsWay, Suited, AdminsOnly, Suits
<1> QED
  BY <1>7, <1>8, <1>10, <1>11, <1>12, <1>13 DEF PagesInv

(* Members or sessions change: what was read does not show it.  A change   *)
(* of the page's own keeps the page busy.                                  *)
Stays == InOrder /\ Awaited /\ OwnWork /\ AsRead

LEMMA Outdated ==
  ASSUME PagesInv, NEW ms \in SUBSET Person, NEW own \in BOOLEAN, P!Outdate(ms, own),
         page' = page, shownBy' = shownBy, latest' = latest,
         \A m \in Person \ ms : standing'[m] = standing[m] /\ systemRole'[m] = systemRole[m],
         Busy => Busy', own => Busy',
         doing'.stage = "loading" => doing.stage = "loading" /\ doing'.load = doing.load
  PROVE  /\ load' \in [1..MaxLoads -> Entry] /\ shown' \in P!Lists /\ Stays'
<1>0. /\ load \in [1..MaxLoads -> Entry] /\ shown \in P!Lists
  BY ListTypes
<1>1. ASSUME NEW i \in 1..MaxLoads
      PROVE  /\ load'[i] \in Entry /\ load'[i].stage = load[i].stage
             /\ load'[i].list = P!Behind(load[i].list, ms, own)
  <2>1. load'[i] = [load[i] EXCEPT !.list = P!Behind(load[i].list, ms, own)]
    BY DEF P!Outdate
  <2>2. load[i] \in Entry /\ P!Behind(load[i].list, ms, own) \in P!Lists
    BY <1>0, Marked DEF Entry
  <2> QED
    BY ONLY <2>1, <2>2 DEF Entry
<1>2. ASSUME NEW i \in 1..MaxLoads
      PROVE  /\ load'[i].list.there = load[i].list.there
             /\ load'[i].list.rows = load[i].list.rows
             /\ load[i].list.there =>
                  /\ load'[i].list.moved = load[i].list.moved \cup ms
                  /\ load'[i].list.misses <=> load[i].list.misses \/ own
             /\ ~load[i].list.there => load'[i].list = load[i].list
  <2>1. load[i].list \in P!Lists
    BY <1>0 DEF Entry
  <2>2. load'[i].list = P!Behind(load[i].list, ms, own)
    BY <1>1
  <2> QED
    BY ONLY <2>1, <2>2, Marked
<1>3. load' \in [1..MaxLoads -> Entry]
  <2>1. load' = [i \in 1..MaxLoads |-> load'[i]]
    BY DEF P!Outdate
  <2> QED
    BY ONLY <1>1, <2>1
<1>4. /\ shown' \in P!Lists /\ shown'.there = shown.there /\ shown'.rows = shown.rows
      /\ shown.there => /\ shown'.moved = shown.moved \cup ms
                        /\ shown'.misses <=> shown.misses \/ own
      /\ ~shown.there => shown' = shown
  BY <1>0, Marked DEF P!Outdate
<1>5. \A i \in 1..MaxLoads : P!InFlight(i)' <=> P!InFlight(i)
  BY <1>1 DEF P!InFlight
<1>6. InOrder'
  <2>1. P!Started' = P!Started
    BY <1>1 DEF P!Started
  <2> QED
    <3>1. P!NoList.there = FALSE
      BY DEF P!NoList
    <3> QED
      BY <1>1, <1>2, <2>1, <3>1 DEF PagesInv, InOrder
<1>7. Awaited'
  BY <1>5 DEF PagesInv, Awaited
<1>8. OwnWork'
  <2>1. /\ \A n : Newer(n) => Newer(n)'
        /\ \A i \in 1..MaxLoads : load'[i].list.misses => own \/ load[i].list.misses
        /\ shown'.misses => own \/ shown.misses
    BY <1>2, <1>4, <1>5 DEF Newer
  <2> QED
    BY <1>5, <2>1 DEF PagesInv, OwnWork
<1>9. AsRead'
  <2>1. ASSUME NEW i \in 1..MaxLoads, page = "members"
        PROVE  /\ ReadStatus(load[i].list)'
               /\ load'[i].stage = "answer" => ReadRole(load[i].list)'
    <3>1. /\ ReadStatus(load[i].list)
          /\ load[i].stage = "answer" => ReadRole(load[i].list)
      BY <2>1 DEF PagesInv, AsRead
    <3>2. \A m \in Person : standing[m] = "active" /\ m \notin ms => standing'[m] = "active"
      OBVIOUS
    <3> QED
      BY <1>1, <1>2, <3>1, <3>2 DEF ReadStatus, ReadRole
  <2>2. page = "members" => ReadStatus(shown)' /\ ReadRole(shown)'
    BY <1>4 DEF PagesInv, AsRead, ReadStatus, ReadRole
  <2> QED
    BY <1>1, <1>2, <2>1, <2>2 DEF PagesInv, AsRead
<1> QED
  BY <1>3, <1>4, <1>6, <1>7, <1>8, <1>9 DEF Stays

\* Nothing happens to the lists.
LEMMA Quiet ==
  ASSUME PagesInv, UNCHANGED <<page, standing, systemRole, load, shown, shownBy, latest>>,
         Busy => Busy',
         doing'.stage = "loading" => doing.stage = "loading" /\ doing'.load = doing.load
  PROVE  /\ load' \in [1..MaxLoads -> Entry] /\ shown' \in P!Lists /\ Stays'
<1>1. \A i \in 1..MaxLoads : P!InFlight(i)' <=> P!InFlight(i)
  BY DEF P!InFlight
<1>2. InOrder'
  BY DEF PagesInv, InOrder, P!Started
<1>3. Awaited'
  BY <1>1 DEF PagesInv, Awaited
<1>4. OwnWork'
  BY <1>1 DEF PagesInv, OwnWork, Newer
<1>5. AsRead'
  BY DEF PagesInv, AsRead, ReadStatus, ReadRole
<1> QED
  BY <1>2, <1>3, <1>4, <1>5, ListTypes DEF Stays

Doing == [stage : {"none", "sent", "done", "refused", "loading", "left"},
          kind : P!Kinds \cup {P!None}, target : Person \cup Device \cup {P!None},
          load : 0..MaxLoads, moved : SUBSET Person]
Inviting ==
  {f \in [stage : {"none", "sent", "done"}, kind : {"invite", P!None},
          target : Person \cup {P!None}, load : {0}, moved : {{}}] :
     f.stage = "sent" => f.kind = "invite" /\ f.target \in Person}
GivenUp == [stage : {"none", "sent"}, kind : P!Kinds \cup {"invite", P!None},
            target : Person \cup Device \cup {P!None}, load : 0..MaxLoads, moved : SUBSET Person]

\* What is left to show once the lists are dealt with.
LEMMA Together ==
  ASSUME PagesInv, load' \in [1..MaxLoads -> Entry], shown' \in P!Lists, Stays',
         page' = page, systemRole' \in [Person -> P!Roles], standing' \in [Person -> P!Statuses],
         alive' \subseteq Device, doing' \in Doing, inviting' \in Inviting,
         late' \in [1..MaxLate -> GivenUp], shownBy' = shownBy, latest' = latest,
         told' \in [page : BOOLEAN, form : BOOLEAN], elsewhere' \in 0..MaxElsewhere,
         OnItsWay', AdminsOnly', dead' = FALSE
  PROVE  PagesInv'
<1>1. dead' \in BOOLEAN
  OBVIOUS
<1> QED
  BY <1>1 DEF PagesInv, P!TypeOK, Stays, Entry, Doing, Inviting, GivenUp

LEMMA OtherTypes ==
  PagesInv => /\ systemRole \in [Person -> P!Roles] /\ standing \in [Person -> P!Statuses]
              /\ alive \subseteq Device /\ doing \in Doing /\ inviting \in Inviting
              /\ late \in [1..MaxLate -> GivenUp]
              /\ told \in [page : BOOLEAN, form : BOOLEAN] /\ elsewhere \in 0..MaxElsewhere
              /\ page \in {"members", "security"}
              /\ OnItsWay /\ AdminsOnly /\ dead = FALSE
  BY DEF PagesInv, P!TypeOK, Doing, Inviting, GivenUp

LEMMA IdleTypes == P!Idle \in Doing /\ P!Idle \in Inviting /\ P!Idle \in GivenUp
  BY AuthorityAssumption DEF P!Idle, Doing, Inviting, GivenUp

\* A change of a member is marked in every change on its way: what those rely
\* on is not disturbed unnoticed.
LEMMA MarkKeeps ==
  ASSUME PagesInv, NEW m \in Person, page' = page, doing' = P!Mark(doing, m),
         \A x \in Person \ {m} : standing'[x] = standing[x] /\ systemRole'[x] = systemRole[x]
  PROVE  /\ doing' \in Doing /\ Suited(doing)' /\ doing'.stage = doing.stage
         /\ doing'.load = doing.load
<1> USE OtherTypes
<1>1. /\ doing' \in Doing /\ doing'.stage = doing.stage /\ doing'.kind = doing.kind
      /\ doing'.target = doing.target /\ doing'.load = doing.load
      /\ doing.stage = "sent" => doing'.moved = doing.moved \cup {m}
  BY DEF P!Mark, Doing
<1>2. ASSUME page = "members", doing.stage = "sent", doing.kind # "invite",
             {Viewer, doing.target} \cap (doing.moved \cup {m}) = {}
      PROVE  Suits(doing.kind, doing.target)'
  <2>1. Suits(doing.kind, doing.target) /\ Viewer # m /\ doing.target # m
    BY <1>2 DEF OnItsWay, Suited
  <2>2. Viewer \in Person /\ doing.target \in Person
    BY <1>2, AuthorityAssumption DEF OnItsWay, Suited
  <2>3. /\ standing'[Viewer] = standing[Viewer] /\ systemRole'[Viewer] = systemRole[Viewer]
        /\ standing'[doing.target] = standing[doing.target]
        /\ systemRole'[doing.target] = systemRole[doing.target]
    BY <2>1, <2>2
  <2> QED
    BY <1>1, <2>1, <2>3 DEF Suits
<1> QED
  BY <1>1, <1>2 DEF OnItsWay, Suited

LEMMA MarkAllKeeps ==
  ASSUME PagesInv, NEW m \in Person, page' = page,
         late' = P!MarkAll(m) \/ \E n \in 1..MaxLate : late' = [P!MarkAll(m) EXCEPT ![n] = P!Idle],
         \A x \in Person \ {m} : standing'[x] = standing[x] /\ systemRole'[x] = systemRole[x]
  PROVE  late' \in [1..MaxLate -> GivenUp] /\ \A n \in 1..MaxLate : Suited(late[n])'
<1> USE OtherTypes
<1>1. P!Idle \in GivenUp /\ P!Idle.stage = "none"
  BY IdleTypes DEF P!Idle
<1>2. P!MarkAll(m) \in [1..MaxLate -> GivenUp]
  BY DEF P!MarkAll, P!Mark, GivenUp
<1>3. \A n \in 1..MaxLate : late'[n] = P!Mark(late[n], m) \/ late'[n] = P!Idle
  BY DEF P!MarkAll
<1>4. ASSUME NEW n \in 1..MaxLate, late'[n] = P!Mark(late[n], m)
      PROVE  Suited(late[n])'
  <2>1. /\ late'[n].stage = late[n].stage /\ late'[n].kind = late[n].kind
        /\ late'[n].target = late[n].target
        /\ late[n].stage = "sent" => late'[n].moved = late[n].moved \cup {m}
    BY <1>4 DEF P!Mark, GivenUp
  <2>2. Suited(late[n])
    BY DEF OnItsWay
  <2>3. ASSUME page = "members", late[n].stage = "sent", late[n].kind # "invite",
               {Viewer, late[n].target} \cap (late[n].moved \cup {m}) = {}
        PROVE  Suits(late[n].kind, late[n].target)'
    <3>1. Suits(late[n].kind, late[n].target) /\ Viewer # m /\ late[n].target # m
      BY <2>2, <2>3 DEF Suited
    <3>2. Viewer \in Person /\ late[n].target \in Person
      BY <2>2, <2>3, AuthorityAssumption DEF Suited
    <3>3. /\ standing'[Viewer] = standing[Viewer] /\ systemRole'[Viewer] = systemRole[Viewer]
          /\ standing'[late[n].target] = standing[late[n].target]
          /\ systemRole'[late[n].target] = systemRole[late[n].target]
      BY <3>1, <3>2
    <3> QED
      BY <2>1, <3>1, <3>3 DEF Suits
  <2> QED
    BY <2>1, <2>2, <2>3 DEF Suited
<1>5. ASSUME NEW n \in 1..MaxLate, late'[n] = P!Idle
      PROVE  Suited(late[n])'
  BY <1>1, <1>5 DEF Suited
<1>6. late' \in [1..MaxLate -> GivenUp]
  BY <1>1, <1>2
<1> QED
  BY <1>3, <1>4, <1>5, <1>6

\* Requests are given up, or served without an effect on members.
LEMMA NoneMoved ==
  ASSUME PagesInv, UNCHANGED <<page, standing, systemRole>>,
         NEW q, q \in GivenUp, Suited(q),
         late' = late \/ \E n \in 1..MaxLate : late' = [late EXCEPT ![n] = q]
  PROVE  late' \in [1..MaxLate -> GivenUp] /\ \A n \in 1..MaxLate : Suited(late[n])'
<1> USE OtherTypes
<1>1. late' \in [1..MaxLate -> GivenUp]
  OBVIOUS
<1>2. \A n \in 1..MaxLate : late'[n] = late[n] \/ late'[n] = q
  OBVIOUS
<1>3. ASSUME NEW n \in 1..MaxLate
      PROVE  Suited(late[n])'
  <2>1. Suited(late[n])
    BY DEF OnItsWay
  <2>2. CASE late'[n] = late[n]
    BY <2>1, <2>2 DEF Suited, Suits
  <2>3. CASE late'[n] = q
    BY <2>3 DEF Suited, Suits
  <2> QED
    BY <1>2, <2>2, <2>3
<1> QED
  BY <1>1, <1>3

LEMMA ClickStep ==
  ASSUME PagesInv, NEW kind \in P!Kinds, NEW t \in Person \cup Device, P!Click(kind, t)
  PROVE  PagesInv'
<1> USE OtherTypes
<1>1. /\ doing.stage = "none" /\ UNCHANGED <<page, standing, systemRole, alive, elsewhere, load,
                                             shown, inviting, late, shownBy, latest, dead>>
      /\ doing' = [stage |-> "sent", kind |-> kind, target |-> t, load |-> 0,
                   moved |-> shown.moved]
      /\ told' = [told EXCEPT !.page = FALSE]
      /\ page = "members" => /\ shown.there /\ t \in Person /\ P!Offers(kind, t)
                             /\ kind \in {"suspend", "revoke", "promote", "demote"}
  BY DEF P!Click, P!server, P!history
<1>2. doing' \in Doing
  BY <1>1, ListTypes, AuthorityAssumption DEF Doing, P!Lists
<1>3. Busy'
  BY <1>1 DEF Busy
<1>4. OnItsWay'
  <2>1. page = "members" /\ {Viewer, t} \cap shown.moved = {} => Suits(kind, t)
    BY <1>1, OffersSuit DEF PagesInv
  <2>2. kind # "invite"
    BY DEF P!Kinds
  <2>3. Suited(doing)'
    BY <1>1, <2>1, <2>2 DEF Suited, Suits
  <2>4. \A n \in 1..MaxLate : Suited(late[n])'
    BY <1>1 DEF OnItsWay, Suited, Suits
  <2> QED
    BY <2>3, <2>4 DEF OnItsWay
<1> QED
  BY <1>1, <1>2, <1>3, <1>4, Quiet, Together DEF AdminsOnly

\* A change of memberships: types, and only administrators are suspended.
LEMMA BecomesEffect ==
  ASSUME PagesInv, NEW kind, NEW m \in Person, P!Becomes(kind, m),
         kind = "suspend" => systemRole[m] = "admin"
  PROVE  /\ systemRole' \in [Person -> P!Roles] /\ standing' \in [Person -> P!Statuses]
         /\ AdminsOnly'
         /\ \A x \in Person \ {m} : standing'[x] = standing[x] /\ systemRole'[x] = systemRole[x]
<1> USE OtherTypes
<1>1. standing' \in [Person -> P!Statuses]
  BY DEF P!Becomes, P!Statuses
<1>2. systemRole' \in [Person -> P!Roles]
  BY DEF P!Becomes, P!Roles
<1>3. \A x \in Person \ {m} : standing'[x] = standing[x] /\ systemRole'[x] = systemRole[x]
  BY DEF P!Becomes
<1>4. standing'[m] = "suspended" => kind = "suspend" /\ systemRole'[m] = systemRole[m]
  BY DEF P!Becomes
<1> QED
  BY <1>1, <1>2, <1>3, <1>4 DEF AdminsOnly

LEMMA ChangeMemberStep ==
  ASSUME PagesInv, P!ChangeMember
  PROVE  PagesInv'
<1> USE OtherTypes
<1>0. doing.kind # "invite"
  BY DEF Doing, P!Kinds, P!None
<1>1. /\ doing.stage = "sent" /\ page = "members" /\ doing.target \in Person
      /\ UNCHANGED <<page, alive, elsewhere, inviting, told, shownBy, latest>>
      /\ {Viewer, doing.target} \cap doing.moved = {} => Suits(doing.kind, doing.target)
  BY <1>0 DEF P!ChangeMember, OnItsWay, Suited
<1>2. CASE P!Permits(doing.kind, Viewer, doing.target)
  <2>1. /\ P!Becomes(doing.kind, doing.target) /\ P!Outdate({doing.target}, TRUE)
        /\ doing' = [P!Idle EXCEPT !.stage = "done"] /\ dead' = dead
        /\ late' = P!MarkAll(doing.target)
    BY <1>2 DEF P!ChangeMember
  <2>2. doing.kind = "suspend" => systemRole[doing.target] = "admin"
    BY <1>2 DEF P!Permits
  <2>3. doing' \in Doing /\ doing'.stage = "done"
    BY <2>1, IdleTypes DEF Doing
  <2>4. Busy'
    BY <2>3 DEF Busy
  <2>5. {doing.target} \in SUBSET Person /\ TRUE \in BOOLEAN
    BY <1>1
  <2>6. /\ systemRole' \in [Person -> P!Roles] /\ standing' \in [Person -> P!Statuses]
        /\ AdminsOnly'
        /\ \A x \in Person \ {doing.target} :
             standing'[x] = standing[x] /\ systemRole'[x] = systemRole[x]
    BY <1>1, <2>1, <2>2, BecomesEffect
  <2>7. late' \in [1..MaxLate -> GivenUp] /\ \A n \in 1..MaxLate : Suited(late[n])'
    BY <1>1, <2>1, <2>6, MarkAllKeeps
  <2>8. OnItsWay'
    BY <2>3, <2>7 DEF OnItsWay, Suited
  <2>9. load' \in [1..MaxLoads -> Entry] /\ shown' \in P!Lists /\ Stays'
    BY <1>1, <2>1, <2>3, <2>4, <2>5, <2>6, Outdated
  <2> QED
    BY <1>1, <2>1, <2>3, <2>6, <2>7, <2>8, <2>9, Together
<1>3. CASE ~P!Permits(doing.kind, Viewer, doing.target)
  <2>1. /\ doing' = [P!Idle EXCEPT !.stage = "refused"]
        /\ dead' = (dead \/ {Viewer, doing.target} \cap doing.moved = {})
        /\ UNCHANGED <<systemRole, standing, load, shown, late>>
    BY <1>3 DEF P!ChangeMember
  <2>2. dead' = FALSE
    BY <1>1, <1>3, <2>1, SuitingIsPermitted
  <2>3. doing' \in Doing /\ doing'.stage = "refused"
    BY <2>1, IdleTypes DEF Doing
  <2>4. Busy'
    BY <2>3 DEF Busy
  <2>5. \A n \in 1..MaxLate : Suited(late[n])'
    BY <1>1, <2>1 DEF OnItsWay, Suited, Suits
  <2>6. OnItsWay' /\ AdminsOnly'
    BY <2>1, <2>3, <2>5 DEF OnItsWay, Suited, AdminsOnly
  <2> QED
    BY <1>1, <2>1, <2>2, <2>3, <2>4, <2>6, Quiet, Together
<1> QED
  BY <1>2, <1>3

\* Sessions change.
LEMMA AliveTypes ==
  ASSUME NEW q, alive \subseteq Device, OwnDevice \in alive
  PROVE  P!AliveAfter(q) \subseteq Device
<1>1. CASE q.kind = "others"
  BY <1>1 DEF P!AliveAfter
<1>2. CASE q.kind = "refresh"
  BY <1>2 DEF P!AliveAfter
<1>3. CASE q.kind \notin {"others", "refresh"}
  BY <1>3 DEF P!AliveAfter
<1> QED
  BY <1>1, <1>2, <1>3

LEMMA ChangeSessionsStep ==
  ASSUME PagesInv, P!ChangeSessions
  PROVE  PagesInv'
<1> USE OtherTypes
<1>1. /\ doing.stage = "sent" /\ page = "security" /\ doing' \in Doing
      /\ doing'.stage \in {"done", "refused"} /\ alive' \subseteq Device
      /\ UNCHANGED <<page, systemRole, standing, elsewhere, inviting, late, told, shownBy, latest, dead>>
      /\ P!Outdate({}, TRUE) \/ UNCHANGED <<load, shown>>
  <2>1. /\ [P!Idle EXCEPT !.stage = "refused"] \in Doing
        /\ \A k \in {"logout", P!None} : [P!Idle EXCEPT !.stage = "done", !.kind = k] \in Doing
    BY IdleTypes DEF Doing, P!Kinds
  <2>2. CASE OwnDevice \in alive
    <3>1. /\ doing' = [P!Idle EXCEPT !.stage = "done",
                        !.kind = IF doing.kind = "logout" THEN "logout" ELSE P!None]
          /\ alive' = P!AliveAfter(doing)
      BY <2>2 DEF P!ChangeSessions, P!history
    <3>2. alive' \subseteq Device
      BY <2>2, <3>1, AliveTypes
    <3>3. doing' \in Doing /\ doing'.stage = "done"
      BY <2>1, <3>1, IdleTypes DEF Doing
    <3> QED
      BY <2>2, <3>2, <3>3 DEF P!ChangeSessions, P!history
  <2>3. CASE OwnDevice \notin alive
    <3>1. doing' = [P!Idle EXCEPT !.stage = "refused"]
      BY <2>3 DEF P!ChangeSessions
    <3>2. doing' \in Doing /\ doing'.stage = "refused"
      BY <2>1, <3>1, IdleTypes DEF Doing
    <3> QED
      BY <2>3, <3>2 DEF P!ChangeSessions, P!history
  <2> QED
    BY <2>2, <2>3
<1>2. Busy'
  BY <1>1 DEF Busy
<1>3. OnItsWay' /\ AdminsOnly'
  BY <1>1 DEF OnItsWay, Suited, Suits, AdminsOnly
<1>4. {} \in SUBSET Person /\ TRUE \in BOOLEAN
  OBVIOUS
<1>5. load' \in [1..MaxLoads -> Entry] /\ shown' \in P!Lists /\ Stays'
  BY <1>1, <1>2, <1>4, Outdated, Quiet
<1> QED
  BY <1>1, <1>3, <1>5, Together

\* The rest of what the page does, and of what others do.
LEMMA UnansweredStep ==
  ASSUME PagesInv, P!Unanswered \/ (P!Answered /\ doing.kind = "logout")
  PROVE  PagesInv'
<1> USE OtherTypes
<1>1. /\ UNCHANGED <<page, systemRole, standing, alive, elsewhere, load, shown, inviting,
                     shownBy, latest, dead>>
      /\ \/ doing' = P!Idle /\ told' = [told EXCEPT !.page = TRUE] /\ P!GivesUp(doing)
         \/ doing' = [doing EXCEPT !.stage = "left"] /\ told' = told /\ late' = late
  BY DEF P!Unanswered, P!Answered, P!server, P!history
<1>2. doing' \in Doing /\ doing'.stage \in {"none", "left"}
  <2>1. P!Idle.stage = "none"
    BY DEF P!Idle
  <2> QED
    BY <1>1, <2>1, IdleTypes DEF Doing
<1>3. Busy' /\ told' \in [page : BOOLEAN, form : BOOLEAN]
  <2>1. P!Idle.stage = "none"
    BY DEF P!Idle
  <2> QED
    BY <1>1, <2>1 DEF Busy, Doing
<1>4. late' \in [1..MaxLate -> GivenUp] /\ \A n \in 1..MaxLate : Suited(late[n])'
  <2>1. CASE late' = late
    BY <1>1, <2>1 DEF OnItsWay, Suited, Suits
  <2>2. CASE doing.stage = "sent" /\ \E n \in 1..MaxLate : late' = [late EXCEPT ![n] = doing]
    <3>1. doing \in GivenUp /\ Suited(doing)
      BY <2>2 DEF Doing, GivenUp, OnItsWay
    <3> QED
      BY <1>1, <2>2, <3>1, NoneMoved
  <2> QED
    BY <1>1, <2>1, <2>2 DEF P!GivesUp
<1>5. OnItsWay' /\ AdminsOnly'
  BY <1>1, <1>2, <1>4 DEF OnItsWay, Suited, AdminsOnly
<1> QED
  BY <1>1, <1>2, <1>3, <1>4, <1>5, Quiet, Together

LEMMA FormStep ==
  ASSUME PagesInv, (\E m \in Person : P!Submit(m)) \/ P!NotInvited
  PROVE  PagesInv'
<1> USE OtherTypes
<1>1. /\ UNCHANGED <<page, systemRole, standing, alive, elsewhere, load, shown, doing,
                     shownBy, latest, dead>>
      /\ \/ /\ told' = [told EXCEPT !.form = FALSE] /\ late' = late
            /\ \E m \in Person :
                 inviting' = [P!Idle EXCEPT !.stage = "sent", !.kind = "invite", !.target = m]
         \/ told' = [told EXCEPT !.form = TRUE] /\ inviting' = P!Idle /\ P!GivesUp(inviting)
  BY DEF P!Submit, P!NotInvited, P!server, P!history
<1>2. /\ inviting' \in Inviting /\ told' \in [page : BOOLEAN, form : BOOLEAN]
      /\ inviting'.stage # "none" \/ told'.form
  BY <1>1, IdleTypes DEF Inviting
<1>3. Busy'
  BY <1>2 DEF Busy
<1>4. late' \in [1..MaxLate -> GivenUp] /\ \A n \in 1..MaxLate : Suited(late[n])'
  <2>1. CASE late' = late
    BY <1>1, <2>1 DEF OnItsWay, Suited, Suits
  <2>2. CASE inviting.stage = "sent" /\ \E n \in 1..MaxLate : late' = [late EXCEPT ![n] = inviting]
    <3>1. inviting \in GivenUp /\ Suited(inviting)
      BY <2>2, AuthorityAssumption DEF Inviting, GivenUp, Suited
    <3> QED
      BY <1>1, <2>2, <3>1, NoneMoved
  <2> QED
    BY <1>1, <2>1, <2>2 DEF P!GivesUp
<1>5. OnItsWay' /\ AdminsOnly'
  BY <1>1, <1>4 DEF OnItsWay, Suited, AdminsOnly, Suits
<1> QED
  BY <1>1, <1>2, <1>3, <1>4, <1>5, Quiet, Together

\* A member becomes another by a request that the page awaits no more, or that
\* was another's: every list and every change on its way tells of it.
LEMMA MemberMoves ==
  ASSUME PagesInv, NEW kind, NEW m \in Person, NEW own \in BOOLEAN,
         P!Becomes(kind, m), kind = "suspend" => systemRole[m] = "admin",
         P!Outdate({m}, own), doing' = P!Mark(doing, m),
         late' = P!MarkAll(m) \/ \E n \in 1..MaxLate : late' = [P!MarkAll(m) EXCEPT ![n] = P!Idle],
         UNCHANGED <<page, alive, shownBy, latest, dead>>, own => inviting'.stage # "none",
         \/ UNCHANGED <<inviting, told>>
         \/ inviting'.stage # "none" /\ inviting' \in Inviting /\ told' = told,
         elsewhere' \in 0..MaxElsewhere
  PROVE  PagesInv'
<1> USE OtherTypes
<1>1. /\ systemRole' \in [Person -> P!Roles] /\ standing' \in [Person -> P!Statuses]
      /\ AdminsOnly'
      /\ \A x \in Person \ {m} : standing'[x] = standing[x] /\ systemRole'[x] = systemRole[x]
  BY BecomesEffect
<1>2. /\ doing' \in Doing /\ Suited(doing)' /\ doing'.stage = doing.stage
      /\ doing'.load = doing.load
  BY <1>1, MarkKeeps
<1>3. late' \in [1..MaxLate -> GivenUp] /\ \A n \in 1..MaxLate : Suited(late[n])'
  BY <1>1, MarkAllKeeps
<1>4. (Busy => Busy') /\ (own => Busy')
  BY <1>2 DEF Busy
<1>5. {m} \in SUBSET Person
  OBVIOUS
<1>6. load' \in [1..MaxLoads -> Entry] /\ shown' \in P!Lists /\ Stays'
  BY <1>1, <1>2, <1>4, <1>5, Outdated
<1>7. OnItsWay'
  BY <1>2, <1>3 DEF OnItsWay
<1>8. inviting' \in Inviting /\ told' \in [page : BOOLEAN, form : BOOLEAN]
  OBVIOUS
<1> QED
  BY <1>1, <1>2, <1>3, <1>6, <1>7, <1>8, Together

LEMMA InviteStep ==
  ASSUME PagesInv, P!Invite
  PROVE  PagesInv'
<1> USE OtherTypes
<1>1. /\ inviting.stage = "sent" /\ inviting' = [P!Idle EXCEPT !.stage = "done"]
      /\ UNCHANGED <<page, alive, elsewhere, told, shownBy, latest, dead>>
  BY DEF P!Invite, P!history
<1>2. inviting' \in Inviting /\ inviting'.stage = "done"
  BY <1>1, IdleTypes DEF Inviting
<1>3. Busy'
  BY <1>2 DEF Busy
<1>4. CASE UNCHANGED <<systemRole, standing, load, shown, doing, late>>
  <2>1. OnItsWay' /\ AdminsOnly'
    BY <1>1, <1>4 DEF OnItsWay, Suited, AdminsOnly, Suits
  <2> QED
    BY <1>1, <1>2, <1>3, <1>4, <2>1, Quiet, Together
<1>5. CASE standing[inviting.target] = "absent" /\ inviting.target \in Person
  <2> DEFINE m == inviting.target
  <2>1. /\ P!Becomes("invite", m) /\ P!Outdate({m}, TRUE) /\ doing' = P!Mark(doing, m)
        /\ late' = P!MarkAll(m)
    BY <1>5 DEF P!Invite
  <2>2. m \in Person /\ TRUE \in BOOLEAN
    BY <1>5
  <2> HIDE DEF m
  <2> QED
    BY <1>1, <1>2, <2>1, <2>2, MemberMoves
<1> QED
  BY <1>1, <1>4, <1>5 DEF P!Invite, Inviting

\* A request that was given up is served.
LEMMA LateStep ==
  ASSUME PagesInv, NEW n \in 1..MaxLate, P!LateChange(n) \/ P!LateInvite(n)
  PROVE  PagesInv'
<1> USE OtherTypes
<1> DEFINE q == late[n]
<1>1. /\ q.stage = "sent" /\ q \in GivenUp /\ Suited(q)
      /\ UNCHANGED <<page, alive, elsewhere, inviting, told, shownBy, latest>>
  BY DEF P!LateChange, P!LateInvite, P!history, OnItsWay
<1>2. CASE /\ UNCHANGED <<systemRole, standing, load, shown, doing, dead>>
           /\ late' = [late EXCEPT ![n] = P!Idle]
  <2>1. P!Idle \in GivenUp /\ Suited(P!Idle)
    BY IdleTypes DEF Suited, P!Idle
  <2>2. late' \in [1..MaxLate -> GivenUp] /\ \A k \in 1..MaxLate : Suited(late[k])'
    BY <1>1, <1>2, <2>1, NoneMoved
  <2>3. OnItsWay' /\ AdminsOnly' /\ (Busy' <=> Busy)
    BY <1>1, <1>2, <2>2 DEF OnItsWay, Suited, AdminsOnly, Suits, Busy
  <2> QED
    BY <1>1, <1>2, <2>2, <2>3, Quiet, Together
<1>3. ASSUME NEW kind, kind = "suspend" => systemRole[q.target] = "admin",
             q.target \in Person, P!Becomes(kind, q.target), P!Outdate({q.target}, FALSE),
             doing' = P!Mark(doing, q.target),
             late' = [P!MarkAll(q.target) EXCEPT ![n] = P!Idle], dead' = dead
      PROVE  PagesInv'
  <2> DEFINE m == q.target
  <2>1. /\ P!Becomes(kind, m) /\ P!Outdate({m}, FALSE) /\ doing' = P!Mark(doing, m)
        /\ late' = [P!MarkAll(m) EXCEPT ![n] = P!Idle] /\ m \in Person /\ FALSE \in BOOLEAN
        /\ kind = "suspend" => systemRole[m] = "admin"
    BY <1>3
  <2> HIDE DEF m
  <2> QED
    BY <1>1, <1>3, <2>1, MemberMoves
<1>4. CASE P!LateInvite(n)
  <2>1. q.target \in Person /\ q.kind = "invite"
    BY <1>1, <1>4 DEF P!LateInvite, Suited
  <2> QED
    BY <1>1, <1>2, <1>3, <1>4, <2>1 DEF P!LateInvite, P!history
<1>5. CASE P!LateChange(n)
  <2>1. q.target \in Person /\ q.kind # "invite" /\ page = "members"
    BY <1>1, <1>5 DEF P!LateChange, Suited
  <2>2. CASE P!Permits(q.kind, Viewer, q.target)
    <3>1. q.kind = "suspend" => systemRole[q.target] = "admin"
      BY <2>2 DEF P!Permits
    <3> QED
      BY <1>1, <1>3, <1>5, <2>1, <2>2, <3>1 DEF P!LateChange
  <2>3. CASE ~P!Permits(q.kind, Viewer, q.target)
    <3>1. ~Suits(q.kind, q.target)
      BY <2>1, <2>3, SuitingIsPermitted
    <3>2. {Viewer, q.target} \cap q.moved # {}
      BY <1>1, <2>1, <3>1 DEF Suited
    <3>3. /\ UNCHANGED <<systemRole, standing, load, shown, doing>>
          /\ late' = [late EXCEPT ![n] = P!Idle]
          /\ dead' = (dead \/ {Viewer, q.target} \cap q.moved = {})
      BY <1>5, <2>3 DEF P!LateChange
    <3>4. dead' = dead
      BY <3>2, <3>3
    <3> QED
      BY <1>2, <3>3, <3>4
  <2> QED
    BY <2>2, <2>3
<1> QED
  BY <1>4, <1>5

LEMMA LateSessionsStep ==
  ASSUME PagesInv, NEW n \in 1..MaxLate, P!LateSessions(n)
  PROVE  PagesInv'
<1> USE OtherTypes
<1>1. /\ UNCHANGED <<page, systemRole, standing, elsewhere, load, shown, doing, inviting, told,
                     shownBy, latest, dead>>
      /\ late' = [late EXCEPT ![n] = P!Idle]
      /\ alive' = IF OwnDevice \in alive THEN P!AliveAfter(late[n]) ELSE alive
  BY DEF P!LateSessions, P!history
<1>2. alive' \subseteq Device
  BY <1>1, AliveTypes
<1>3. P!Idle \in GivenUp /\ Suited(P!Idle)
  BY IdleTypes DEF Suited, P!Idle
<1>4. late' \in [1..MaxLate -> GivenUp] /\ \A k \in 1..MaxLate : Suited(late[k])'
  BY <1>1, <1>3, NoneMoved
<1>5. OnItsWay' /\ AdminsOnly' /\ (Busy' <=> Busy)
  BY <1>1, <1>4 DEF OnItsWay, Suited, AdminsOnly, Suits, Busy
<1> QED
  BY <1>1, <1>2, <1>4, <1>5, Quiet, Together

LEMMA ElsewhereStep ==
  ASSUME PagesInv, NEW m \in Person,
         NEW kind \in {"accept", "suspend", "revoke", "promote", "demote"}, P!Elsewhere(kind, m)
  PROVE  PagesInv'
<1> USE OtherTypes
<1>1. /\ UNCHANGED <<page, alive, inviting, told, shownBy, latest, dead>>
      /\ elsewhere < MaxElsewhere /\ elsewhere' = elsewhere + 1
      /\ P!Becomes(kind, m) /\ P!Outdate({m}, FALSE) /\ doing' = P!Mark(doing, m)
      /\ late' = P!MarkAll(m)
  BY DEF P!Elsewhere, P!history
<1>2. kind = "suspend" => systemRole[m] = "admin"
  BY DEF P!Elsewhere, P!Permits
<1>3. elsewhere' \in 0..MaxElsewhere /\ FALSE \in BOOLEAN
  BY <1>1, AuthorityAssumption
<1> QED
  BY <1>1, <1>2, <1>3, MemberMoves

LEMMA EndsElsewhereStep ==
  ASSUME PagesInv, NEW s \in Device, P!EndsElsewhere(s)
  PROVE  PagesInv'
<1> USE OtherTypes
<1>1. /\ UNCHANGED <<page, systemRole, standing, load, shown, doing, inviting, late, told,
                     shownBy, latest, dead>>
      /\ elsewhere < MaxElsewhere /\ elsewhere' = elsewhere + 1 /\ alive' = alive \ {s}
  BY DEF P!EndsElsewhere, P!history
<1>2. elsewhere' \in 0..MaxElsewhere /\ alive' \subseteq Device
  BY <1>1, AuthorityAssumption
<1>3. OnItsWay' /\ AdminsOnly' /\ (Busy' <=> Busy)
  BY <1>1 DEF OnItsWay, Suited, AdminsOnly, Suits, Busy
<1> QED
  BY <1>1, <1>2, <1>3, Quiet, Together

LEMMA PagesSteps == PagesInv /\ [P!Next]_pages => PagesInv'
<1> SUFFICES ASSUME PagesInv, [P!Next]_pages PROVE PagesInv'
  OBVIOUS
<1>1. CASE UNCHANGED pages
  <2>1. UNCHANGED <<page, systemRole, standing, alive, elsewhere, load, shown, doing, inviting, late,
                    told, shownBy, latest, dead>>
    BY <1>1 DEF pages
  <2>2. OnItsWay' /\ AdminsOnly' /\ (Busy' <=> Busy)
    BY <2>1, OtherTypes DEF OnItsWay, Suited, AdminsOnly, Suits, Busy
  <2> QED
    BY <2>1, <2>2, OtherTypes, Quiet, Together
<1>2. ASSUME NEW i \in 1..MaxLoads,
             P!ReadMe(i) \/ P!ReadList(i) \/ P!ReadRoles(i) \/ P!Arrive(i) \/ P!LoadFails(i)
      PROVE  PagesInv'
  <2>1. P!ReadMe(i) \/ P!ReadList(i) \/ P!ReadRoles(i) => P!InFlight(i)
    BY DEF P!ReadMe, P!ReadList, P!ReadRoles, P!InFlight
  <2> QED
    BY <1>2, <2>1, LoadGoesOn, LoadEnds
<1>3. CASE P!Answered
  BY <1>3, LoadBegins, UnansweredStep
<1>4. CASE P!Next
  BY <1>2, <1>3, <1>4, ClickStep, ChangeMemberStep, ChangeSessionsStep, UnansweredStep,
     FormStep, InviteStep, LateStep, LateSessionsStep, LoadBegins, ElsewhereStep, EndsElsewhereStep DEF P!Next
<1> QED
  BY <1>1, <1>4

\* The pages' requests overlap, get lost or are served when they have been given
\* up, and others change the same rows.
THEOREM PagesInductive == AuthoritySpec => []PagesInv
<1>1. AuthorityInit => PagesInv
  BY PagesStart DEF AuthorityInit
<1>2. PagesInv /\ [AuthorityNext]_<<part, vars, rbac, csrf, pages, create>> => PagesInv'
  BY EachItsOwn, PagesSteps
<1> QED
  BY <1>1, <1>2, PTL DEF AuthoritySpec

\* A page at rest without an error shows every change the API made while the
\* page awaited it, unless the list of an earlier load came after a later one's.
THEOREM PagesShowIt == AuthoritySpec => []PagesShowTheirOwnWork
<1>1. PagesInv => PagesShowTheirOwnWork
  <2> SUFFICES ASSUME PagesInv, P!Resting, ~told.page, ~told.form, shown.misses
               PROVE  shownBy < latest
    BY DEF PagesShowTheirOwnWork, P!PagesShowTheirOwnWork
  <2>1. ~Busy /\ ~Newer(latest)
    BY DEF P!Resting, Busy, Newer
  <2> QED
    BY <2>1 DEF PagesInv, OwnWork
<1> QED
  BY <1>1, PagesInductive, PTL

\* What a page offers is refused only if something changed.
THEOREM OffersArePermitted == AuthoritySpec => []OffersWhatIsPermitted
<1>1. PagesInv => OffersWhatIsPermitted
  BY DEF PagesInv, OffersWhatIsPermitted, P!OffersWhatIsPermitted
<1> QED
  BY <1>1, PagesInductive, PTL
=============================================================================
