----------------------------- MODULE RulePacks -----------------------------
(***************************************************************************)
(* DefaultRules of both packs: every rule with its id and its dimension,   *)
(* applied to the stored findings.  The engine runs them over the same     *)
(* sequence; a rule that panics is worth a rule without evidence.          *)
(***************************************************************************)
EXTENDS HostRules, EucsfRules

Ruled(id, dim, res) == [id |-> id, dim |-> dim, res |-> res]

accountabilityRules(fs, now) ==
  {Ruled("registrant_identifiable", "accountability", registrantIdentifiable(fs)),
   Ruled("no_reseller",             "accountability", noReseller(fs)),
   Ruled("soa_rname",               "accountability", soaRname(fs)),
   Ruled("securitytxt",             "accountability", securitytxt(fs, now)),
   Ruled("ns_holder_transparent",   "accountability", nsHolderTransparent(fs)),
   Ruled("domain_expiry",           "operationeel",   domainExpiry(fs, now)),
   Ruled("variant_convergence",     "operationeel",   variantConvergence(fs))}

standardsRules(fs, now) ==
  {Ruled(r, "standards", scoreStandardsCategory(fs, r, now)) :
     r \in DOMAIN standardsCategoriesFor}

wandDefaultRules(fs, now) ==
  {Ruled("cert_issuer_eea",         "juridisch",    certIssuerEEA(fs)),
   Ruled("apex_ip_eea",             "juridisch",    apexIPInEEA(fs)),
   Ruled("mx_vendor_jurisdiction",  "juridisch",    mxVendorJurisdiction(fs)),
   Ruled("ns_vendor_jurisdiction",  "juridisch",    nsVendorJurisdiction(fs)),
   Ruled("registrar_jurisdiction",  "juridisch",    registrarJurisdiction(fs)),
   Ruled("transit_eu_path",         "juridisch",    transitEUPath(fs)),
   Ruled("cert_validity",           "operationeel", certValidity(fs)),
   Ruled("dns_redundancy",          "operationeel", dnsRedundancy(fs)),
   Ruled("caa_restricts",           "operationeel", caaRestricts(fs)),
   Ruled("http_exposure",           "operationeel", httpExposure(fs)),
   Ruled("third_parties_eea",       "technologie",  thirdPartiesEEA(fs)),
   Ruled("no_us_hyperscaler",       "technologie",  noUSHyperscaler(fs)),
   Ruled("mx_present",              "data_ai",      mxPresent(fs)),
   Ruled("oidc_federation",         "data_ai",      oidcFederation(fs)),
   Ruled("us_telemetry_packages",   "technologie",  hostNoUSTelemetryPackages(fs)),
   Ruled("us_telemetry_services",   "technologie",  hostNoUSTelemetryServices(fs)),
   Ruled("eu_package_origin",       "technologie",  hostEUPackageOrigin(fs)),
   Ruled("objectstore_eu",          "technologie",  nextcloudObjectstoreEU(fs)),
   Ruled("oidc_provider_eu",        "technologie",  nextcloudOIDCProviderEU(fs)),
   Ruled("images_us_registry",      "technologie",  dockerImagesUSRegistry(fs)),
   Ruled("containers_us_registry",  "technologie",  dockerContainersUSRegistry(fs))}
  \cup accountabilityRules(fs, now) \cup standardsRules(fs, now)

eucsfDefaultRules(fs) ==
  {Ruled("cert_issuer_eu",          "juridisch",    certIssuerEU(fs)),
   Ruled("apex_jurisdiction",       "juridisch",    apexJurisdiction(fs)),
   Ruled("mx_jurisdiction",         "data_ai",      mxJurisdiction(fs)),
   Ruled("operational_eu",          "technologie",  operationalEU(fs)),
   Ruled("no_us_hyperscaler",       "technologie",  eucsfNoUSHyperscaler(fs)),
   Ruled("host_no_us_telemetry",    "technologie",  eucsfHostNoUSTelemetry(fs)),
   Ruled("nextcloud_supply_chain",  "technologie",  nextcloudSupplyChain(fs)),
   Ruled("container_supply_chain",  "technologie",  containerSupplyChain(fs))}

\* The result of one rule, and the score its rationale shows.
ResultOf(R, id) == (CHOOSE r \in R : r.id = id).res
ScoreOf(R, id)  == RationaleScore(ResultOf(R, id))
=============================================================================
