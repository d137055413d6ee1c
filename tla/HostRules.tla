----------------------------- MODULE HostRules -----------------------------
(***************************************************************************)
(* The rules of both packs over what the host agent's inspectors report    *)
(* (inventory.* rows): packages, systemd services, docker, Nextcloud; and  *)
(* the catalogues they consult.                                            *)
(*                                                                         *)
(* The catalogues are embedded YAML; they are represented by one entry per *)
(* case the rules tell apart.  A package row keeps its "vendor" and        *)
(* "maintainer" as catalogue keys, an image reference is [host, name] with *)
(* host = "" when the reference carries no registry host.  A rule cites at *)
(* most SampleCap rows when it found nothing wrong.                        *)
(***************************************************************************)
EXTENDS WandRules

CONSTANT SampleCap      \* hostSampleEvidenceCap and its three namesakes: 10
ASSUME SampleCapAssumption == SampleCap \in Nat \ {0}

\* The first SampleCap positions of I.
sampleEvidence(I) ==
  {i \in I : Cardinality({j \in I : j < i}) < SampleCap}

Inspected(fs, probes) ==
  {i \in DOMAIN fs : fs[i].probe \in probes /\ IsEvidenceLike(fs[i])}

\* The rules match the prefix "inventory.packages.": the rows of either
\* manager carry it, and so do the rows that say a manager was not there or
\* failed.
PackageProbes == {"inventory.packages.dpkg", "inventory.packages.rpm"}
                 \cup {"inventory.packages.dpkg.unavailable",
                       "inventory.packages.rpm.unavailable",
                       "inventory.packages.dpkg.error",
                       "inventory.packages.rpm.error"}
ServiceProbes == {"inventory.systemd.service"}
ImageProbes     == {"inventory.docker.image"}
ContainerProbes == {"inventory.docker.container"}

(***************************************************************************)
(* Catalogues.                                                             *)
(***************************************************************************)
HostTelemetryAgents == {"datadog-agent", "newrelic-infra"}
HostTelemetryMatch(subject) == subject \in HostTelemetryAgents

\* package_vendors.yaml in file order; the first entry that matches either
\* the rpm vendor or the domain of the dpkg maintainer wins.
PackageVendors == <<[rpm |-> "Red Hat", dpkg |-> "redhat.com", jurisdiction |-> "us"],
                    [rpm |-> "SUSE",    dpkg |-> "suse.com",   jurisdiction |-> "eu"],
                    [rpm |-> "",        dpkg |-> "debian.org", jurisdiction |-> "community"]>>

ClassifyPackageVendor(rpmVendor, domain) ==
  LET M == {k \in DOMAIN PackageVendors :
              \/ rpmVendor # "" /\ PackageVendors[k].rpm = rpmVendor
              \/ domain # "" /\ PackageVendors[k].dpkg = domain}
  IN  IF M = {} THEN "" ELSE PackageVendors[Min(M)].jurisdiction

USRegistries == {"docker.io", "ghcr.io", "quay.io"}

\* A reference without a registry host is docker.io's.
resolveImageRegistry(ref) == IF ref.host = "" THEN "docker.io" ELSE ref.host

\* The "<none>:<none>" image has no name and is skipped.
ContainerRegistryMatch(ref) ==
  ref.name # "<none>" /\ resolveImageRegistry(ref) \in USRegistries

ImageRefs(f) == IF f.probe \in ContainerProbes THEN {f.attrs.image}
                ELSE f.attrs.repo_tags

(***************************************************************************)
(* wand                                                                    *)
(***************************************************************************)
\* Shared by the rules that look for a hit in what was inspected.
HitRule(inspected, hits) ==
  IF inspected = {} THEN NoEvidence
  ELSE IF hits = {} THEN Scored(Soeverein, sampleEvidence(inspected))
  ELSE Scored(Afhankelijk, hits)

hostNoUSTelemetry(fs, probes) ==
  LET I == Inspected(fs, probes)
  IN  HitRule(I, {i \in I : HostTelemetryMatch(fs[i].subject)})

hostNoUSTelemetryPackages(fs) == hostNoUSTelemetry(fs, PackageProbes)
hostNoUSTelemetryServices(fs) == hostNoUSTelemetry(fs, ServiceProbes)

hostEUPackageOrigin(fs) ==
  LET I == Inspected(fs, PackageProbes)
      Origin(i) == ClassifyPackageVendor(Attr(fs[i], "vendor"),
                                         Attr(fs[i], "maintainer"))
      classified == {i \in I : Origin(i) # ""}
      us == {i \in I : Origin(i) = "us"}
      eu == {i \in I : Origin(i) = "eu"}
  IN  IF I = {} THEN NoEvidence
      ELSE IF us # {} THEN Scored(Afhankelijk, sampleEvidence(us))
      ELSE IF classified # {} /\ eu = classified
      THEN Scored(Soeverein, sampleEvidence(eu))
      ELSE Scored(Voldoende, sampleEvidence(I))

dockerRegistryMatch(fs, probes) ==
  LET I == Inspected(fs, probes)
  IN  HitRule(I, {i \in I : \E r \in ImageRefs(fs[i]) : ContainerRegistryMatch(r)})

dockerImagesUSRegistry(fs)     == dockerRegistryMatch(fs, ImageProbes)
dockerContainersUSRegistry(fs) == dockerRegistryMatch(fs, ContainerProbes)

StoreProbes == {"inventory.nextcloud.objectstore"}
IdPProbes   == {"inventory.nextcloud.oidc_provider"}

\* An unknown country is not an EEA country.
NonEEARule(fs, probes) ==
  LET I == Inspected(fs, probes)
  IN  HitRule(I, {i \in I : Attr(fs[i], "country") \notin eeaCountries})

nextcloudObjectstoreEU(fs)  == NonEEARule(fs, StoreProbes)
nextcloudOIDCProviderEU(fs) == NonEEARule(fs, IdPProbes)

(***************************************************************************)
(* eucsf: one verdict where wand keeps two.                                *)
(***************************************************************************)
eucsfHostNoUSTelemetry(fs) == hostNoUSTelemetry(fs, PackageProbes \cup ServiceProbes)
containerSupplyChain(fs)   == dockerRegistryMatch(fs, ImageProbes \cup ContainerProbes)

\* An unreadable system config is reported only when nothing else was seen.
nextcloudSupplyChain(fs) ==
  IF /\ Inspected(fs, StoreProbes \cup IdPProbes) = {}
     /\ Has(fs, "inventory.nextcloud.system_config.unreadable")
  THEN Result(Onbekend, {}, "scanner_unreadable_output")
  ELSE NonEEARule(fs, StoreProbes \cup IdPProbes)
=============================================================================
