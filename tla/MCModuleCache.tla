--------------------------- MODULE MCModuleCache ---------------------------
(* A tenant with a service, its private service and an adapter, and another *)
(* tenant that uses the service and has an adapter of the same module name. *)
EXTENDS ModuleCache, TLC

CONSTANTS t1, t2, service, inner, adapter, other, moduleUrl, k1, k2, r1, r2

MCOwner == (service :> t1) @@ (inner :> t1) @@ (adapter :> t1) @@ (other :> t2)
MCKey == [i \in Items |-> IF i \in Adapters THEN moduleUrl ELSE i]
MCPrivate == [i \in Items |-> IF i = service THEN {inner} ELSE IF i = inner THEN {service} ELSE {}]
MCConfig == (t1 :> {service, adapter}) @@ (t2 :> {service, other})
MCStores == (t1 :> {{service, inner}, {adapter}}) @@ (t2 :> {{other}})

Cast(requests, reports, rebuilds, domains, edits, n) ==
    [requests |-> requests, reports |-> reports, rebuilds |-> rebuilds, domains |-> domains,
     edits |-> edits, calls |-> n]

\* The code of a service that two tenants use; that of two adapters; the catalogue beside
\* a request; the build of a tenant and the report on it.
MCCasts == {Cast({<<t1, service>>, <<t2, service>>}, {}, {t1}, {}, {service}, 4),
            Cast({<<t1, adapter>>, <<t2, other>>}, {}, {t1}, {}, {adapter}, 3),
            Cast({<<t1, service>>}, {}, {}, {t1}, {service}, 1),
            Cast({}, {t1}, {t1}, {}, {service, inner}, 2)}
=============================================================================
