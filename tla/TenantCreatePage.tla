-------------------------- MODULE TenantCreatePage --------------------------
(***************************************************************************)
(* The console's page where the platform creates a tenant, and the page    *)
(* that shows how far it is.  A visit to the first page makes up one       *)
(* idempotency key and sends it with each submission; answers are lost,    *)
(* the administrator tries again or corrects the values, and the API may   *)
(* serve an earlier submission after a later one.                          *)
(*                                                                         *)
(* Abstracted: a submission that reaches the API is served in one step,    *)
(* its transaction is Onboarding's; a tenant's name stays the same; the    *)
(* proof against cross-site requests is CsrfProof's.                       *)
(***************************************************************************)
EXTENDS Naturals

CONSTANTS Admin,      \* platform administrators, each with a page
          Slug, Owner,
          MaxSubmits  \* bound: submissions of an administrator

VARIABLES
  visit,    \* the visit of each administrator to the page
  sent,     \* number of submissions
  form,     \* the page: [stage, body]
  wire,     \* submissions the API has not served
  tenants   \* [body, key, status, by: the visit that asked for it]

vars == <<visit, sent, form, wire, tenants>>

Body == [slug : Slug, owner : Owner]
Stages == {"editing", "waiting", "created", "status", "shown", "missing"}

\* Faulty variant: each submission has a key of its own.
KeyOfSubmission(a) == <<a, visit[a], sent[a]>>
IdempotencyKey(a) == <<a, visit[a], 0>>

Init ==
  /\ visit = [a \in Admin |-> 1] /\ sent = [a \in Admin |-> 0]
  /\ form = [a \in Admin |-> [stage |-> "editing", body |-> CHOOSE body \in Body : TRUE]]
  /\ wire = {} /\ tenants = {}

(* The values of the form are submitted; the button is off until there is  *)
(* an answer or the request has failed.                                    *)
Submit(a, body) ==
  /\ form[a].stage = "editing" /\ sent[a] < MaxSubmits
  /\ sent' = [sent EXCEPT ![a] = @ + 1]
  /\ form' = [form EXCEPT ![a] = [stage |-> "waiting", body |-> body]]
  /\ wire' = wire \cup {[by |-> <<a, visit[a]>>, n |-> sent[a], key |-> IdempotencyKey(a), body |-> body]}
  /\ UNCHANGED <<visit, tenants>>

\* A page still waiting for q, and not for a later submission.
Awaits(q) == /\ form[q.by[1]].stage = "waiting"
             /\ q.by = <<q.by[1], visit[q.by[1]]>> /\ q.n + 1 = sent[q.by[1]]

(* A key that was used is answered from what it made, or with a conflict   *)
(* if the values differ; a slug that is taken is a conflict, too, and      *)
(* leaves the key unused.  A refusal is shown over the form.               *)
Serve(q) ==
  LET made == {t \in tenants : t.key = q.key}
      taken == \E t \in tenants : t.body.slug = q.body.slug
      ok == IF made = {} THEN ~taken ELSE \E t \in made : t.body = q.body
  IN  /\ q \in wire /\ wire' = wire \ {q}
      /\ tenants' = IF ok /\ made = {}
                    THEN tenants \cup {[body |-> q.body, key |-> q.key, by |-> q.by,
                                        status |-> "provisioning"]}
                    ELSE tenants
      /\ form' = IF Awaits(q)
                 THEN [form EXCEPT ![q.by[1]].stage = IF ok THEN "created" ELSE "editing"]
                 ELSE form
  /\ UNCHANGED <<visit, sent>>

\* The request or its answer is lost: an error is shown, and the form may be
\* submitted again.  The API may still serve the request.
Fails(a) ==
  /\ form[a].stage \in {"waiting", "created"}
  /\ form' = [form EXCEPT ![a].stage = "editing"]
  /\ UNCHANGED <<visit, sent, wire, tenants>>

Leaves(a) ==
  /\ form[a].stage = "created" /\ form' = [form EXCEPT ![a].stage = "status"]
  /\ UNCHANGED <<visit, sent, wire, tenants>>

Visit(a) ==
  /\ visit[a] <= sent[a] /\ sent[a] < MaxSubmits
  /\ visit' = [visit EXCEPT ![a] = @ + 1]
  /\ form' = [form EXCEPT ![a].stage = "editing"]
  /\ UNCHANGED <<sent, wire, tenants>>

-----------------------------------------------------------------------------
(* The page of the status loads it at once and when asked; the API knows   *)
(* of tenants whose owner has not accepted.                                *)
Load(a) ==
  /\ form[a].stage \in {"status", "shown", "missing"}
  /\ form' = [form EXCEPT ![a].stage =
       IF \E t \in tenants : t.body.slug = form[a].body.slug /\ t.status = "provisioning"
       THEN "shown" ELSE "missing"]
  /\ UNCHANGED <<visit, sent, wire, tenants>>

OwnerAccepts(t) ==
  /\ t \in tenants /\ t.status = "provisioning"
  /\ tenants' = (tenants \ {t}) \cup {[t EXCEPT !.status = "active"]}
  /\ UNCHANGED <<visit, sent, form, wire>>

Next ==
  \/ \E a \in Admin :
       (\E body \in Body : Submit(a, body)) \/ Fails(a) \/ Leaves(a) \/ Visit(a) \/ Load(a)
  \/ \E q \in wire : Serve(q)
  \/ \E t \in tenants : OwnerAccepts(t)

Spec == Init /\ [][Next]_vars

-----------------------------------------------------------------------------
(* Values have their types.                                                *)
TypeOK ==
  /\ form \in [Admin -> [stage : Stages, body : Body]]
  /\ sent \in [Admin -> 0..MaxSubmits]

(* However often the values of a visit are submitted, corrected and        *)
(* submitted again, with answers lost and submissions served late, the     *)
(* visit makes one tenant; the page leaves only for a tenant of its visit  *)
(* with the values it showed last, and the status is shown until the owner *)
(* has accepted.                                                           *)
AVisitMakesOneTenant ==
  /\ \A t, u \in tenants : t.by = u.by => t = u
  /\ \A a \in Admin : form[a].stage \in {"status", "shown", "missing"} =>
       \E t \in tenants :
         /\ t.by = <<a, visit[a]>> /\ t.body = form[a].body
         /\ form[a].stage = "missing" => t.status = "active"
=============================================================================
