------------------------- MODULE ExtensionsExtender -------------------------
(***************************************************************************)
(* The list of Gardener extensions in the shoot manifest, the DNS section  *)
(* and the Kubernetes version.  On creation the list is built from the     *)
(* Runtime; on a patch every extension KIM knows is computed anew and      *)
(* merged into the list the shoot has, which may hold others.              *)
(*                                                                         *)
(* An extension is its type, whether it is enabled, and a number for its   *)
(* configuration (0 if there is none).  want is what the Runtime and the   *)
(* configuration of KIM ask for:                                           *)
(*   egress, ingress  the network filter                                   *)
(*   acl              allowed CIDRs are given                              *)
(*   nvidia           EnableNvidiaOpenshell                                *)
(*   caches           the number of registry caches                        *)
(*   audit            the audit log tenant, 0 if there is none             *)
(*   version          the Kubernetes version, 0 if not given               *)
(***************************************************************************)
EXTENDS Naturals, SequencesExt

CONSTANTS
    FilterGlobal,   \* NetworkRestrictionGlobalEnabled
    AclGlobal,      \* ApiServerAclEnabled
    DNSInternal,    \* DNSConfig.IsGardenerInternal
    DefaultVersion  \* kubernetes.defaultVersion

ASSUME ExtensionsAssumption ==
    {FilterGlobal, AclGlobal, DNSInternal} \subseteq BOOLEAN /\ DefaultVersion \in Nat \ {0}

Known == {"auditlog", "filter", "dns", "registry-cache", "acl", "nvidia", "cert", "oidc"}

Extension(t, on, c) == [type |-> t, enabled |-> on, config |-> c]

\* The code's nil.
NoExtension == Extension("", FALSE, 0)

Find(list, t) ==
    IF \E i \in 1..Len(list) : list[i].type = t
    THEN CHOOSE i \in 1..Len(list) : list[i].type = t /\ \A j \in 1..(i - 1) : list[j].type # t
    ELSE 0

existingExtension(list, t) == IF Find(list, t) = 0 THEN NoExtension ELSE list[Find(list, t)]

-----------------------------------------------------------------------------
(* The extensions.                                                          *)

\* The code leaves out what equals the existing extension, with the same result.
NewAuditLogExtension(want) ==
    IF want.audit = 0 THEN NoExtension ELSE Extension("auditlog", TRUE, want.audit)

NewNetworkFilterExtension(want) ==
    IF ~FilterGlobal THEN NoExtension
    ELSE Extension("filter", want.egress, IF want.egress /\ want.ingress THEN 1 ELSE 0)

\* Its configuration is the number of DNS providers.
buildDNSExtension == Extension("dns", TRUE, IF DNSInternal THEN 0 ELSE 1)

\* A cluster from before custom domains, without providers, is left as it is.  All DNS
\* extensions here have a configuration (one without is replaced by the desired one).
dnsExtensionForPatch(list) ==
    IF Find(list, "dns") # 0 /\ existingExtension(list, "dns").config = 0
    THEN existingExtension(list, "dns")
    ELSE buildDNSExtension

NewRegistryCacheExtension(want) ==
    IF want.caches = 0 THEN NoExtension ELSE Extension("registry-cache", TRUE, want.caches)

AclNeedsToBeEnabled(provider, want) == AclGlobal /\ provider \in {"aws", "azure"} /\ want.acl

NewApiServerACLExtension(enabled) == Extension("acl", enabled, IF enabled THEN 1 ELSE 0)

aclForCreate(provider, want) ==
    IF AclNeedsToBeEnabled(provider, want) THEN NewApiServerACLExtension(TRUE) ELSE NoExtension

aclForPatch(provider, want, list) ==
    IF AclNeedsToBeEnabled(provider, want) THEN NewApiServerACLExtension(TRUE)
    ELSE IF Find(list, "acl") = 0 THEN NoExtension ELSE NewApiServerACLExtension(FALSE)

nvidiaForCreate(want) == IF want.nvidia THEN Extension("nvidia", TRUE, 0) ELSE NoExtension

\* mutant: an extension that is switched off is not mentioned, and stays
nvidiaNotDisabled(want, list) ==
    IF want.nvidia THEN Extension("nvidia", TRUE, 0) ELSE NoExtension

nvidiaForPatch(want, list) ==
    IF want.nvidia THEN Extension("nvidia", TRUE, 0)
    ELSE IF Find(list, "nvidia") = 0 THEN NoExtension ELSE Extension("nvidia", FALSE, 0)

-----------------------------------------------------------------------------
(* The list.                                                                *)

\* What is at an index, 0 if there is nothing, is replaced; remove is StrategyRemove.
mergeAt(list, index, ext, remove) ==
    IF ext # NoExtension
    THEN IF index = 0 THEN Append(list, ext) ELSE ReplaceAt(list, index, ext)
    ELSE IF remove /\ index # 0 THEN RemoveAt(list, index) ELSE list

\* One round of the loop in newExtensionsExtender.
mergeExtension(list, t, ext, remove) == mergeAt(list, Find(list, t), ext, remove)

ExtensionsForCreate(provider, want) ==
    LET filter == mergeExtension(<<>>, "filter", NewNetworkFilterExtension(want), FALSE)
        cert   == mergeExtension(filter, "cert", Extension("cert", TRUE, 0), FALSE)
        dns    == mergeExtension(cert, "dns", buildDNSExtension, FALSE)
        oidc   == mergeExtension(dns, "oidc", Extension("oidc", TRUE, 0), FALSE)
        audit  == mergeExtension(oidc, "auditlog", NewAuditLogExtension(want), FALSE)
        acl    == mergeExtension(audit, "acl", aclForCreate(provider, want), FALSE)
    IN  mergeExtension(acl, "nvidia", nvidiaForCreate(want), FALSE)

ExtensionsForPatch(provider, want, existing) ==
    LET audit  == mergeExtension(existing, "auditlog", NewAuditLogExtension(want), FALSE)
        filter == mergeExtension(audit, "filter", NewNetworkFilterExtension(want), FALSE)
        dns    == mergeExtension(filter, "dns", dnsExtensionForPatch(filter), FALSE)
        cache  == mergeExtension(dns, "registry-cache", NewRegistryCacheExtension(want), TRUE)
        acl    == mergeExtension(cache, "acl", aclForPatch(provider, want, cache), FALSE)
    IN  mergeExtension(acl, "nvidia", nvidiaForPatch(want, acl), FALSE)

-----------------------------------------------------------------------------
(* The DNS section of the shoot, as the number of its providers, and the    *)
(* Kubernetes version.                                                      *)

DNSForCreate == IF DNSInternal THEN 0 ELSE 1

DNSForPatch(existing) == IF DNSInternal \/ existing = 0 THEN existing ELSE DNSForCreate

requestedVersion(want) == IF want.version = 0 THEN DefaultVersion ELSE want.version

KubernetesVersion(want, current) ==
    IF requestedVersion(want) < current THEN current ELSE requestedVersion(want)
=============================================================================
