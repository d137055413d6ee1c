----------------------------- MODULE Inventory -----------------------------
(***************************************************************************)
(* The host agent's inspectors (internal/probe/inventory), run one after   *)
(* the other.  A host h is a record                                        *)
(*   enabled   the configured inspectors, in order                         *)
(*   there     the inspectors whose tool or socket exists                  *)
(*   dpkg, rpm, units      sequences of [name, from]; from is the          *)
(*             package's maintainer domain or vendor                       *)
(*   containers, images    sequences of image references                   *)
(*   stores, idps          countries that the object stores and the        *)
(*             identity providers of its Nextcloud really are in           *)
(* F holds the commands that fail.                                         *)
(***************************************************************************)
EXTENDS Probes

dpkgInspect(h) ==
  Each(h.dpkg, LAMBDA p : Finding("inventory.packages.dpkg", p.name, [maintainer |-> p.from]))
rpmInspect(h) ==
  Each(h.rpm, LAMBDA p : Finding("inventory.packages.rpm", p.name, [vendor |-> p.from]))
systemdInspect(h) ==
  Each(h.units, LAMBDA u : Finding("inventory.systemd.service", u.name, [load_state |-> "loaded"]))
dockerInspect(h) ==
  Each(h.containers, LAMBDA r : Finding("inventory.docker.container", r.name, [image |-> r]))
  \o Each(h.images, LAMBDA r : Finding("inventory.docker.image", r.name, [repo_tags |-> {r}]))

(***************************************************************************)
(* Nextcloud.  An object store would be annotated with its country by a    *)
(* resolver, which the agent does not configure; an identity provider is   *)
(* never annotated.  A config listing that cannot be parsed leaves a row   *)
(* of its own, one whose command fails leaves none.                        *)
(***************************************************************************)
annotateObjectstore(stores) ==
  Each(stores, LAMBDA c : Finding("inventory.nextcloud.objectstore", "bucket",
                              [endpoint_host |-> "store"]))

runOIDC(h, F) ==
  IF <<"occ", "oidc">> \in F
  THEN <<Finding("inventory.nextcloud.oidc.unavailable", "user_oidc", [unavailable |-> TRUE])>>
  ELSE Each(h.idps, LAMBDA c : Finding("inventory.nextcloud.oidc_provider", "idp",
                                   [issuer_host |-> "idp"]))

\* Sorted by probe id: the stores, the providers, the unreadable listing.
nextcloudInspect(h, F) ==
  (IF {<<"occ", "config">>, <<"occ", "parse">>} \cap F = {}
   THEN annotateObjectstore(h.stores) ELSE <<>>)
  \o runOIDC(h, F)
  \o Optional(<<"occ", "parse">> \in F /\ <<"occ", "config">> \notin F,
       Finding("inventory.nextcloud.system_config.unreadable", "config:list system",
               [unavailable |-> TRUE]))

Inspector(h, F, id) == CASE id = "packages.dpkg" -> dpkgInspect(h)
                         [] id = "packages.rpm"  -> rpmInspect(h)
                         [] id = "systemd"       -> systemdInspect(h)
                         [] id = "docker"        -> dockerInspect(h)
                         [] id = "nextcloud"     -> nextcloudInspect(h, F)

\* The probe ids of the two rows that say an inspector did not report.
MetaRow(id, what) ==
  CASE id = "packages.dpkg" /\ what = "unavailable" -> "inventory.packages.dpkg.unavailable"
    [] id = "packages.dpkg" /\ what = "error"       -> "inventory.packages.dpkg.error"
    [] id = "packages.rpm" /\ what = "unavailable"  -> "inventory.packages.rpm.unavailable"
    [] id = "packages.rpm" /\ what = "error"        -> "inventory.packages.rpm.error"
    [] OTHER -> "inventory.other"

Inspect(h, F) ==
  LET One(id) == IF id \notin h.there
                 THEN <<Finding(MetaRow(id, "unavailable"), "host", [reason |-> "not found"])>>
                 ELSE IF <<"inspect", id>> \in F
                 THEN <<Finding(MetaRow(id, "error"), "host", [error |-> "failed"])>>
                 ELSE Inspector(h, F, id)
  IN  FlattenSeq(Each(h.enabled, One))
=============================================================================
