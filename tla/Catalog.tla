------------------------------- MODULE Catalog -------------------------------
(***************************************************************************)
(* The challenges of internal/game/challenges_*.go: what each finds in its *)
(* environment when it is handed out, and what its probes ask.             *)
(*                                                                         *)
(* Of a manifest only those fields count that a probe asks for, or that    *)
(* keep a probed status from getting there.  Words stand for values, <<>>  *)
(* is a field that is omitted.  A status is what the cluster's controllers *)
(* write, and comes to its last stage by itself while `needs' holds.       *)
(***************************************************************************)
EXTENDS Naturals, Sequences, TLC

CONSTANT Nodes  \* eligible nodes

(* Pods that the ResourceQuota of an environment leaves for the player,    *)
(* next to the toolbox.  A Pod on every node must not be too much.         *)
PodsLeft == 50 - 1

ASSUME NodesAssumption == Nodes \in 1..PodsLeft

-----------------------------------------------------------------------------
(* Probes: kubectl get <kind> <name> -o jsonpath={<field>}.                *)
Probe(kind, name, field, comparison, value) ==
  [object |-> <<kind, name>>, field |-> field, kind |-> comparison, value |-> value]

probe(kind, name, field, word) == Probe(kind, name, field, "Equals", <<word>>)
emptyProbe(kind, name, field) == Probe(kind, name, field, "Equals", <<>>)
nonEmptyProbe(kind, name, field) == Probe(kind, name, field, "NotEmpty", <<>>)
unorderedProbe(kind, name, field, words) == Probe(kind, name, field, "Unordered", words)
atLeastProbe(kind, name, field, n) == Probe(kind, name, field, "AtLeast", n)

(* --ignore-not-found -o name: an object that is not there is no error.    *)
goneProbe(kind, name) == emptyProbe(kind, name, "nameIfFound")

(* What a manifest, a setup command or a condition says of a field.        *)
Fact(kind, name, field, words) == [object |-> <<kind, name>>, field |-> field, value |-> words]
is(kind, name, field, word) == Fact(kind, name, field, <<word>>)
exists(kind, name) == Fact(kind, name, "name", <<name>>)

(* External: the stages of a status, the first of which is in a new object.*)
becomes(field, first, last, needs) ==
  [fresh |-> field :> first, stages |-> << field :> first, field :> last >>, needs |-> needs]

counts(field, n, needs) ==
  [fresh |-> field :> <<>>,
   stages |-> [i \in 1..n + 1 |-> field :> IF i = 1 THEN <<>> ELSE <<ToString(i - 1)>>],
   needs |-> needs]

(* numberReady is always present, numberUnavailable when it is not zero;   *)
(* a new object has neither counted yet.                                   *)
daemons ==
  LET counted(ready) == [numberReady |-> <<ToString(ready)>>,
                         numberUnavailable |-> IF ready = Nodes THEN <<>>
                                               ELSE <<ToString(Nodes - ready)>>]
  IN [fresh |-> [numberReady |-> <<"0">>, numberUnavailable |-> <<>>],
      stages |-> [i \in 1..Nodes + 1 |-> counted(i - 1)], needs |-> {}]

Challenge(given, probes) == [given |-> given, setup |-> {}, status |-> <<>>, probes |-> probes]

-----------------------------------------------------------------------------
foundationChallenges ==
  "first-pod" :> [Challenge({},
     << probe("pod", "learner", "image", "nginx:1.27-alpine"),
        probe("pod", "learner", "phase", "Running") >>)
     EXCEPT !.status = <<"pod", "learner">> :> becomes("phase", <<"Pending">>, <<"Running">>, {})]
  @@ "scale-up" :> Challenge({is("deployment", "api", "replicas", "1")},
     << probe("deployment", "api", "replicas", "3") >>)
  @@ "scheduling" :> [Challenge({is("deployment", "scheduled-app", "nodeSelector", "blocked")},
     << emptyProbe("deployment", "scheduled-app", "nodeSelector"),
        probe("deployment", "scheduled-app", "availableReplicas", "2") >>)
     EXCEPT !.status = <<"deployment", "scheduled-app">> :> counts("availableReplicas", 2,
       {Fact("deployment", "scheduled-app", "nodeSelector", <<>>)})]
  @@ "broken-image" :> [Challenge({is("deployment", "web", "image", "image-does-not-exist")},
     << probe("deployment", "web", "availableReplicas", "2") >>)
     EXCEPT !.status = <<"deployment", "web">> :> counts("availableReplicas", 2,
       {is("deployment", "web", "image", "nginx")})]
  @@ "crash-loop" :> [Challenge({is("deployment", "payment-service", "command", "exit 1")},
     << emptyProbe("deployment", "payment-service", "command"),
        probe("deployment", "payment-service", "availableReplicas", "2") >>)
     EXCEPT !.status = <<"deployment", "payment-service">> :> counts("availableReplicas", 2,
       {Fact("deployment", "payment-service", "command", <<>>)})]
  @@ "self-healing" :> Challenge({is("deployment", n, "replicas", "1") : n \in {"web", "api", "worker"}},
     << atLeastProbe("deployment", "web", "replicas", 2),
        atLeastProbe("deployment", "api", "replicas", 2),
        atLeastProbe("deployment", "worker", "replicas", 2) >>)

(* The Pods that rolling-rollback starts with stay: its new ones never     *)
(* become ready, and maxUnavailable of three replicas is none.             *)
workloadChallenges ==
  "daemonset" :> [Challenge({},
     << probe("daemonset", "log-agent", "image", "busybox:1.36"),
        nonEmptyProbe("daemonset", "log-agent", "numberReady"),
        emptyProbe("daemonset", "log-agent", "numberUnavailable") >>)
     EXCEPT !.status = <<"daemonset", "log-agent">> :> daemons]
  @@ "batch-workloads" :> [Challenge({},
     << probe("job", "batch-a", "succeeded", "1"),
        probe("job", "batch-b", "succeeded", "1"),
        probe("cronjob", "cleanup", "schedule", "hourly") >>)
     EXCEPT !.status = [job \in {<<"job", "batch-a">>, <<"job", "batch-b">>} |->
                          counts("succeeded", 1, {})]]
  @@ "rolling-rollback" :> [Challenge({is("deployment", "api-server", "image", "nginx:1.27-alpine")},
     << probe("deployment", "api-server", "image", "nginx:1.27-alpine"),
        probe("deployment", "api-server", "availableReplicas", "3") >>)
     EXCEPT !.setup = {is("deployment", "api-server", "image", "image-does-not-exist")},
            !.status = <<"deployment", "api-server">> :> counts("availableReplicas", 3, {})]

networkingChallenges ==
  "service-discovery" :> [Challenge({},
     << probe("service", "backend", "selector", "backend"),
        probe("service", "backend", "type", "ClusterIP"),
        probe("service", "backend", "port", "80"),
        probe("service", "frontend", "selector", "frontend"),
        probe("service", "frontend", "type", "NodePort"),
        probe("service", "frontend", "port", "80"),
        nonEmptyProbe("service", "frontend", "nodePort") >>)
     EXCEPT !.status = <<"service", "frontend">> :> becomes("nodePort", <<>>, <<"30080">>,
       {is("service", "frontend", "type", "NodePort")})]
  @@ "service-selector" :> [Challenge({is("service", "backend", "selector", "wrong"),
                                       exists("endpoints", "backend")},
     << probe("service", "backend", "selector", "backend"),
        nonEmptyProbe("endpoints", "backend", "address") >>)
     EXCEPT !.status = <<"endpoints", "backend">> :> becomes("address", <<>>, <<"10.244.0.7">>,
       {is("service", "backend", "selector", "backend")})]
  @@ "ingress-tls" :> Challenge({},
     << probe("secret", "web-tls", "type", "tls"),
        probe("ingress", "edge", "host", "games.local"),
        probe("ingress", "edge", "paths[0].path", "/app"),
        probe("ingress", "edge", "paths[0].pathType", "Prefix"),
        probe("ingress", "edge", "paths[0].service", "app-svc"),
        probe("ingress", "edge", "paths[1].path", "/api"),
        probe("ingress", "edge", "paths[1].pathType", "Prefix"),
        probe("ingress", "edge", "paths[1].service", "api-svc"),
        probe("ingress", "edge", "tls.secretName", "web-tls") >>)
  @@ "network-segmentation" :> Challenge({},
     << probe("networkpolicy", "database-deny-all", "podSelector", "database"),
        probe("networkpolicy", "database-deny-all", "policyType", "Ingress"),
        emptyProbe("networkpolicy", "database-deny-all", "ingress"),
        probe("networkpolicy", "database-allow-backend", "from", "backend"),
        probe("networkpolicy", "frontend-egress", "podSelector", "frontend"),
        probe("networkpolicy", "frontend-egress", "policyType", "Egress") >>)
  @@ "dns-debugging" :> Challenge({},
     << probe("networkpolicy", "allow-dns", "podSelector", "client"),
        probe("networkpolicy", "allow-dns", "protocol", "UDP"),
        probe("networkpolicy", "allow-dns", "port", "53") >>)

stateChallenges ==
  "configmaps" :> Challenge({exists("deployment", "app")},
     << nonEmptyProbe("configmap", "app-config", "name"),
        nonEmptyProbe("configmap", "env-config", "name"),
        probe("deployment", "app", "volume", "app-config"),
        probe("deployment", "app", "volumeMount", "app-config"),
        probe("deployment", "app", "envFrom", "env-config") >>)
  @@ "secrets" :> Challenge({is("configmap", "db-config", "DB_PASSWORD", "exposed123"),
                             exists("deployment", "database")},
     << emptyProbe("configmap", "db-config", "DB_PASSWORD"),
        probe("secret", "db-secret", "type", "Opaque"),
        probe("secret", "api-secret", "type", "Opaque"),
        probe("deployment", "database", "volume", "db-secret"),
        probe("deployment", "database", "volumeMount", "db-secret") >>)
  @@ "persistent-storage" :> Challenge({},
     << probe("pvc", "data-a", "storage", "1Gi"),
        probe("pvc", "data-a", "accessMode", "ReadWriteOnce"),
        probe("pvc", "data-b", "storage", "1Gi"),
        probe("pvc", "data-b", "accessMode", "ReadWriteOnce") >>)
  @@ "statefulset" :> Challenge({},
     << probe("service", "database", "clusterIP", "None"),
        probe("statefulset", "database", "serviceName", "database"),
        probe("statefulset", "database", "replicas", "3"),
        probe("statefulset", "database", "template.name", "data"),
        probe("statefulset", "database", "template.accessMode", "ReadWriteOnce"),
        probe("statefulset", "database", "template.storage", "1Gi") >>)

productionChallenges ==
  "resource-limits" :> Challenge({exists("deployment", "worker")},
     << probe("deployment", "worker", "requests.cpu", "200m"),
        probe("deployment", "worker", "requests.memory", "128Mi"),
        probe("deployment", "worker", "limits.cpu", "500m"),
        probe("deployment", "worker", "limits.memory", "256Mi") >>)
  @@ "production-readiness" :> Challenge({exists("deployment", "web")},
     << probe("deployment", "web", "requests.cpu", "100m"),
        probe("deployment", "web", "requests.memory", "64Mi"),
        probe("deployment", "web", "limits.cpu", "250m"),
        probe("deployment", "web", "limits.memory", "128Mi"),
        probe("deployment", "web", "livenessProbe", "/"),
        probe("deployment", "web", "readinessProbe", "/"),
        probe("hpa", "web-autoscaler", "minReplicas", "2"),
        probe("hpa", "web-autoscaler", "maxReplicas", "5"),
        probe("hpa", "web-autoscaler", "cpu", "70") >>)
  @@ "rbac-fortress" :> Challenge({exists("role", "legacy-admin")},
     << goneProbe("role", "legacy-admin"),
        probe("serviceaccount", "viewer", "name", "viewer"),
        probe("serviceaccount", "editor", "name", "editor"),
        unorderedProbe("role", "viewer", "resources", <<"configmaps">>),
        unorderedProbe("role", "viewer", "verbs", <<"get", "list">>),
        unorderedProbe("role", "editor", "resources", <<"configmaps">>),
        unorderedProbe("role", "editor", "verbs", <<"get", "list", "update">>),
        probe("rolebinding", "viewer", "roleRef", "viewer"),
        probe("rolebinding", "viewer", "subject", "viewer"),
        probe("rolebinding", "editor", "roleRef", "editor"),
        probe("rolebinding", "editor", "subject", "editor") >>)
  @@ "outage-resilience" :> Challenge({is("deployment", "web", "replicas", "1")},
     << probe("deployment", "web", "replicas", "4"),
        probe("pdb", "web-budget", "minAvailable", "3"),
        probe("pdb", "web-budget", "selector", "web") >>)

threeTierChallenge ==
  LET apps == <<"frontend", "backend", "database">>
  IN Challenge({}, [i \in 1..3 |-> probe("deployment", apps[i], "label", apps[i])]
                   \o [i \in 1..3 |-> probe("service", apps[i], "selector", apps[i])])

blackFridayChallenge ==
  LET autoscaler(name, target) ==
        << probe("hpa", name, "scaleTargetRef", target), probe("hpa", name, "minReplicas", "2"),
           probe("hpa", name, "maxReplicas", "10"), probe("hpa", name, "cpu", "70") >>
  IN Challenge({is("deployment", n, "replicas", "2") : n \in {"web", "api"}},
       << probe("deployment", "web", "replicas", "10"),
          probe("deployment", "api", "replicas", "8") >>
       \o autoscaler("web-autoscaler", "web") \o autoscaler("api-autoscaler", "api"))

fullProductionChallenge ==
  Challenge({},
    << probe("deployment", "frontend", "livenessProbe", "/"),
       probe("deployment", "frontend", "readinessProbe", "/"),
       probe("deployment", "backend", "label", "backend"),
       probe("deployment", "database", "label", "database"),
       probe("service", "frontend", "selector", "frontend"),
       probe("service", "backend", "selector", "backend"),
       probe("service", "database", "selector", "database"),
       probe("secret", "db-credentials", "type", "Opaque"),
       probe("ingress", "prod", "path", "/"),
       probe("ingress", "prod", "service", "frontend"),
       probe("networkpolicy", "default-deny", "policyType", "Ingress"),
       emptyProbe("networkpolicy", "default-deny", "ingress"),
       probe("networkpolicy", "allow-backend", "podSelector", "database"),
       probe("networkpolicy", "allow-backend", "from", "backend"),
       probe("hpa", "frontend-autoscaler", "scaleTargetRef", "frontend") >>)

allChallenges ==
  foundationChallenges @@ workloadChallenges @@ networkingChallenges @@ stateChallenges
  @@ productionChallenges @@ "three-tier" :> threeTierChallenge
  @@ "black-friday" :> blackFridayChallenge @@ "full-production" :> fullProductionChallenge

-----------------------------------------------------------------------------
(* Mutant of Granted: the Role does without the policy group.              *)
GrantedBudgetless ==
  {"pod", "service", "endpoints", "configmap", "secret", "serviceaccount", "pvc", "deployment",
   "statefulset", "daemonset", "job", "cronjob", "ingress", "networkpolicy", "hpa", "role",
   "rolebinding"}

(* The kinds that the player's Role allows to create, change and delete.   *)
Granted ==
  {"pod", "service", "endpoints", "configmap", "secret", "serviceaccount", "pvc"} \cup
  {"deployment", "statefulset", "daemonset"} \cup {"job", "cronjob"} \cup
  {"ingress", "networkpolicy"} \cup {"hpa"} \cup {"pdb"} \cup {"role", "rolebinding"}
=============================================================================
