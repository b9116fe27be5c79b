-------------------------------- MODULE Cmdb --------------------------------
(***************************************************************************)
(* The configuration database: services, assets, the links between them,   *)
(* and the impact of a ticket, which Prisma reads in several statements    *)
(* while others add links.                                                 *)
(***************************************************************************)
CONSTANTS Workers, Services, Assets, Impacted

(***************************************************************************)
(* The rows of services and assets; deps holds <<s, t>> when s depends on  *)
(* t, links <<a, s>> when asset a serves s, attached the assets of the     *)
(* ticket whose impacted service is Impacted. Levels and types of links    *)
(* are left out: an upsert of the same pair overwrites them.               *)
(***************************************************************************)
VARIABLES services, assets, deps, links, attached, req

tables == <<services, assets, deps, links, attached>>
vars == <<tables, req>>

Report == [needs : SUBSET Services, needed : SUBSET Services,
           via : SUBSET (Assets \X Services)]
Nothing == [needs |-> {}, needed |-> {}, via |-> {}]
Request == [pc : {"idle", "needs", "needed", "assets", "links", "answer"},
            seen : SUBSET Assets, was : Report, report : Report]
Idle == [pc |-> "idle", seen |-> {},
         was |-> Nothing, report |-> Nothing]

\* The impact of the ticket as the tables are: one step along the dependencies,
\* and the services of its assets.
Impact == [needs  |-> {s \in Services : <<Impacted, s>> \in deps},
           needed |-> {s \in Services : <<s, Impacted>> \in deps},
           via    |-> {l \in links : l[1] \in attached}]

At(w, pc) == req[w].pc = pc
Finish(w) == req' = [req EXCEPT ![w] = Idle]

Init ==
  /\ services = {Impacted} /\ assets = {}
  /\ deps = {} /\ links = {} /\ attached = {}
  /\ req = [w \in Workers |-> Idle]

-----------------------------------------------------------------------------
CreateService(s) ==
  /\ s \notin services
  /\ services' = services \cup {s}
  /\ UNCHANGED <<assets, deps, links, attached, req>>

CreateAsset(a) ==
  /\ a \notin assets
  /\ assets' = assets \cup {a}
  /\ UNCHANGED <<services, deps, links, attached, req>>

DependOnAny(s, t) ==  \* Fault: no foreign keys
  /\ s \in services
  /\ deps' = deps \cup {<<s, t>>}
  /\ UNCHANGED <<services, assets, links, attached, req>>

\* One upsert; the foreign keys refuse a service that is not there.
CreateServiceDependency(s, t) ==
  /\ {s, t} \subseteq services
  /\ deps' = deps \cup {<<s, t>>}
  /\ UNCHANGED <<services, assets, links, attached, req>>

\* The ticket's assets are written by nothing in the service.
AttachAsset(a) ==
  /\ a \in assets
  /\ attached' = attached \cup {a}
  /\ UNCHANGED <<services, assets, deps, links, req>>

LinkByAsset(a, s) ==  \* Fault: the key of the upsert is the asset alone
  /\ a \in assets /\ s \in services
  /\ links' = {l \in links : l[1] # a} \cup {<<a, s>>}
  /\ UNCHANGED <<services, assets, deps, attached, req>>

\* Nothing removes the service and the asset between their lookup and the upsert.
LinkAssetToService(a, s) ==
  /\ a \in assets /\ s \in services
  /\ links' = links \cup {<<a, s>>}
  /\ UNCHANGED <<services, assets, deps, attached, req>>

GetTicketImpact(w) ==
  /\ At(w, "idle")
  /\ req' = [req EXCEPT ![w] = [Idle EXCEPT !.pc = "needs", !.was = Impact]]
  /\ UNCHANGED tables

\* One statement of the nested read: field f of the report is what it is now.
Select(w, f) ==
  /\ At(w, f)
  /\ req' = [req EXCEPT ![w].report[f] = Impact[f],
                        ![w].pc = IF f = "needs" THEN "needed" ELSE "assets"]
  /\ UNCHANGED tables

SelectAssets(w) ==
  /\ At(w, "assets")
  /\ req' = [req EXCEPT ![w].pc = "links", ![w].seen = attached]
  /\ UNCHANGED tables

SelectLinks(w) ==
  /\ At(w, "links")
  /\ req' = [req EXCEPT ![w].pc = "answer", ![w].report.via = {l \in links : l[1] \in req[w].seen}]
  /\ UNCHANGED tables

Answer(w) == At(w, "answer") /\ Finish(w) /\ UNCHANGED tables

Next ==
  \/ \E s \in Services : CreateService(s)
  \/ \E a \in Assets : CreateAsset(a) \/ AttachAsset(a)
  \/ \E s, t \in Services : CreateServiceDependency(s, t)
  \/ \E a \in Assets, s \in Services : LinkAssetToService(a, s)
  \/ \E w \in Workers :
       \/ GetTicketImpact(w)
       \/ \E f \in {"needs", "needed"} : Select(w, f)
       \/ SelectAssets(w) \/ SelectLinks(w) \/ Answer(w)

Spec == Init /\ [][Next]_vars

-----------------------------------------------------------------------------
Within(r, q) == \A f \in DOMAIN r : r[f] \subseteq q[f]

\* Rows and requests keep to their types, and links name rows that exist.
TypeOK ==
  /\ services \subseteq Services /\ assets \subseteq Assets
  /\ deps \subseteq services \X services
  /\ links \subseteq assets \X services
  /\ attached \subseteq assets
  /\ req \in [Workers -> Request]

\* The impact that is answered, though read in pieces, holds all that was so when
\* it was asked for and nothing that is not so when it is answered: nothing in
\* the service removes a link, and this is what the report rests on.
\* (getTicketImpact against linkAssetToService and createServiceDependency.)
ImpactIsBetween ==
  \A w \in Workers : At(w, "answer") =>
    Within(req[w].was, req[w].report) /\ Within(req[w].report, Impact)
=============================================================================
