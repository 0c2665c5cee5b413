# A TLA+ model of kubemci

`kubemci` configures one global Google Cloud HTTP(S) load balancer over several
Kubernetes clusters. It is a command line tool: it keeps no state of its own,
has no server and takes no locks. Everything it knows it reads back from the
cloud and from the clusters each time it runs. A load balancer is a chain of
seven kinds of resources that point to each other; the tool builds, changes and
removes that chain with a long series of API calls, each of which can fail, be
lost or be the last one before the process is killed. It does not roll back: it
collects errors and goes on. What that leaves behind, and whether the next
command can deal with it, is the subject of this model; and so is what happens
before the first call (flags, files, names, services, probes) and when two people
run it at the same time.

The modules model the code under `src/app/kubemci`; `PROJECT.json` maps each
definition to the lines it stands for.

## 1. The system

### Components, state and operations

| Component (source) | State | Operations |
|---|---|---|
| Health check syncer (`pkg/gcp/healthcheck`) | a health check per node port: service, request path | `EnsureHealthCheck`, `DeleteHealthChecks` |
| Backend service syncer (`pkg/gcp/backendservice`) | a backend service per node port: service, instance groups, link to the health check of the port | `EnsureBackendService`, `DeleteBackendServices`, `RemoveFromClusters` |
| URL map syncer (`pkg/gcp/urlmap`) | one url map: default and path backend services, status in the description | `EnsureURLMap`, `DeleteURLMap`, `GetLoadBalancerStatus`, `ListLoadBalancerStatuses`, `RemoveClustersFromStatus` |
| Target proxy syncer (`pkg/gcp/targetproxy`) | an HTTP and an HTTPS proxy: link to the url map, certificate | `EnsureHTTPTargetProxy`, `EnsureHTTPSTargetProxy`, `DeleteTargetProxies` |
| Forwarding rule syncer (`pkg/gcp/forwardingrule`) | a rule per protocol: address, link to the proxy; status of old load balancers | `EnsureHTTP(S)ForwardingRule`, `DeleteForwardingRules`, `GetLoadBalancerStatus`, `ListLoadBalancerStatuses`, `RemoveClustersFromStatus` |
| SSL certificate syncer (`pkg/gcp/sslcert`) | the certificate made from the ingress's secret | `EnsureSSLCert`, `DeleteSSLCert` |
| Firewall rule syncer (`pkg/gcp/firewallrule`) | one rule: node ports, network tags | `EnsureFirewallRule`, `DeleteFirewallRules`, `RemoveFromClusters` |
| Load balancer status (`pkg/gcp/status`) | clusters and address, as JSON in a description | `ToString`, `FromString`, `RemoveClusters` |
| Ingress syncer (`pkg/ingress`) | an ingress per cluster | `EnsureIngress`, `DeleteIngress`, `UnmarshallAndApplyDefaults`, `ApplyStaticIP` |
| Kube utils (`pkg/kubeutils`) | none | `GetServiceNodePort`, `GetProbe`, `ObjectMetaAndSpecEquivalent`, `GetClients` |
| Validations (`pkg/validations`) | none | `Validate` |
| Load balancer syncer (`pkg/gcp/loadbalancer`) | locals of a command | `CreateLoadBalancer`, `DeleteLoadBalancer`, `RemoveFromClusters`, `PrintStatus`, `ListLoadBalancers` |
| Commands (`cmd`) | options | `create`, `delete`, `remove-clusters`, `get-status`, `list`, `version` |
| Namer (`pkg/gcp/namer`) | none | names of the resources |
| Cloud interface, instance getter, utilities | none | thin wrappers of the client libraries |

Outside the repository are the Google Cloud API (which refuses to insert a name
that is taken, to delete a resource that another one points to, and to accept an
empty link), the Kubernetes API servers, and the *ingress-gce controller* of
every cluster, which writes the instance groups of its cluster into an
annotation of the ingress.

### How they interact

A command calls the syncers in a fixed order and passes what one returned to the
next: node ports to health checks, health checks and instance groups to backend
services, backend services to the url map, its link to the proxies, theirs to the
forwarding rules. A link that is missing because an earlier call failed is passed
on as an empty value. The controllers and the user work on the clusters at the
same time: a create *waits* for the controllers (`getIGsForCluster` polls the
annotation, without a limit), and services can change under a running command.
Commands communicate with each other only through what they leave in the cloud;
`remove-clusters` trusts the status that an earlier `create` wrote. Nothing keeps
two commands from running at the same time; all that orders them is the
fingerprint that the cloud checks on updates of url maps and backend services.
Load balancers of one project meet in the names of their resources.

### What is hard

* **Partial failure.** Nearly every error is collected and passed over. Whether
  the resources that are made after an error still fit together depends on each
  syncer noticing what is missing.
* **Retry.** There is no undo; the user runs the command again. So create must
  recognise what an earlier create made, whole or in part, and delete must work
  from any intermediate state, in an order the cloud accepts.
* **Lost answers.** Every error of a Get is taken for "not found" and followed by
  an insert; every insert is followed by another Get. An insert can have worked
  although it is reported as failed.
* **Stale knowledge.** Node ports are read once, the status is written before it is
  known to be true, and is read long before it is changed.
* **Waiting** for another process without a limit, with an update that erases what
  was waited for.
* **Read, change, write back** without a lock, while another command does the same.
* **Names as keys.** Resources are found by a name that may be cut, backend services
  by the name of the Kubernetes service, ports by number or by name.
* **Go's semantics.** Map iteration in random order, and pointers that are copied
  where values were meant.

### What makes each component correct

* Each *ensure*: it creates, accepts or, only under `--force`, changes; what it
  accepts is what it would create (`NoOverwriteWithoutForce`, `RecreateSucceeds`,
  `CreateComplete`); it does not create something that points nowhere
  (`References`).
* Each *delete*: nothing of its kind stays (`DeleteComplete`), and in context it is
  never refused (`DeleteInOrder`).
* Removing clusters: all traces of the clusters go (`RemoveComplete`), some cluster
  remains (`StatusKeepsSomeCluster`).
* The commands: they end (`Terminates`), their ingress goes last
  (`IngressDeletedLast`), `--force` repairs what failures left
  (`ForcedCreateRecovers`) and does not interrupt what works
  (`ForcedCreateKeepsClusters`), and the traffic changes only as the command says
  (`ImplementsService`).
* Commands at the same time: none undoes what another one did
  (`RemovesTouchOwnClusters`, `RemovesTakeEffect`, `StatusTellsMembers`).
* From file and flags to calls: only what both ask for is touched
  (`TouchesOnlyAsked`), delete finds what create made (`DeleteUndoesCreate`), only
  supported clusters are accepted (`SupportedVersions`).
* From ingress and pods to routes and health checks: `RoutesAsWritten`,
  `RoutedToItsService`, `RecreateWithoutForce`, `PathOfEveryProbe`.
* Names: accepted by the cloud (`NamesAccepted`), apart as long as they are short
  (`ShortNamesApart`), and where they meet, nothing points to what another load balancer
  took away (`ReferencesAcross`).
* `list` and `get-status`: they show what was built (`ListedAsBuilt`).

The full list of hazards, with the lines where they bite, is in `PROJECT.json`.

## 2. The modules

```
CloudAPI              outcomes of API calls; the shape of "ensure"
  KubemciTypes        constants, ingress specifications, commands, status
    HealthCheckSyncer  BackendServiceSyncer  URLMapSyncer  TargetProxySyncer
    ForwardingRuleSyncer  SSLCertSyncer  FirewallRuleSyncer  IngressSyncer
      LoadBalancerSyncer   the three load balancer methods, call by call
        Kubemci            commands, crashes, controllers, user; Spec
          KubemciProperties    what is promised
            KubemciRefinement    ... as traffic: implements MultiClusterIngress
          StatusCommands       list and get-status
            MCKubemci          small instances for TLC
      ConcurrentCommands   several processes, Get and write apart; MCConcurrent
  IngressRouting      from rules and services to the url map; MCRouting
  HealthProbes        from pods to the path of a health check; MCProbes
  CommandLine         from flags and files to the ingresses; MCCommandLine
  Namer, SharedProject    names, and load balancers that share them; MCSharedProject
MultiClusterIngress   abstract: traffic, and what a command may do to it

CloudAPIProofs        outcomes of API calls
  SyncerProofs          the methods of the syncers
    KubemciProofs         Kubemci, in six parts: types and references; delete and
                          remove-clusters; create and list; a create that is repeated;
                          implements MultiClusterIngress; create --force and traffic
    ConcurrentProofs      ConcurrentCommands
  RoutingProofs         IngressRouting
  HealthProbesProofs    HealthProbes
  CommandLineProofs     CommandLine
SharedProjectProofs   Namer, SharedProject
```

`Kubemci` is the core: one load balancer from the first call on. The other
specifications look closer at something that it takes as given, and each of them
leaves out what it does not need: `ConcurrentCommands` reuses the syncers' operators
but takes Get and write apart; `IngressRouting`, `HealthProbes` and `CommandLine`
take the loops of the code one iteration at a time.

### Kubemci

**A call is a set of outcomes.** An outcome has the value of the resource
afterwards (`res`), whether the caller gets an error (`err`) and whether the
environment caused it (`fault`). `Create`, `Delete` and `Call` give the outcomes of
API calls, `Ensure` those of the ensure methods, which all have the same shape. A
faulty call may have taken effect. A loop over ports, protocols or clusters makes a
*choice*, one outcome per key. Each syncer module holds the resource it owns as a
VARIABLE and its methods as operators that return outcomes.

**A call of a syncer is an action** of `LoadBalancerSyncer`: it picks an outcome,
writes the resource, keeps the returned links in `loc` and records the error.

| Variable | In the code |
|---|---|
| `hc`, `be` | health checks, backend services, by node port (the port is in the name) |
| `um`, `cert`, `fw` | url map, certificate, firewall rule |
| `tp`, `fr` | proxies and forwarding rules, by protocol |
| `ing`, `nodePort` | ingresses and services in the clusters |
| `pc`, `cmd`, `err`, `loc` | the running command: next call, options, collected error, local variables |
| `fault`, `faults` | ghosts: the command has met a fault; number of faults so far |
| `stable` | ghost: the last create that succeeded, if nothing was done since |

| Actions | Code |
|---|---|
| `createNodePorts` ... `createFirewall` | `CreateLoadBalancer`, one action per call |
| `getIGs`, `getNamedPorts` | the loop over clusters of `getIGs`, one action per cluster, so that controllers act in between; the two early returns after it |
| `deleteFirewall` ... `deleteHealthChecks` | `DeleteLoadBalancer` |
| `removeStatusCheck` ... `removeFromStatus` | `RemoveFromClusters` |
| `createValidate`, `createIngress`, `deleteIngress`, `Return` | `createIngressAndLoadBalancer`, `runDelete`, `runRemoveClusters` |
| `Run`, `ChangeServices` | the user |
| `Crash` | the process is killed between two calls |
| `Annotate` | a controller (external) |

### MultiClusterIngress and KubemciRefinement

The abstract specification has no resources. Its state is the set of pairs of a
protocol and a cluster that clients can reach, whether the firewall is open to every
cluster, the running job and whether it has met an error. A job changes the traffic in
any number of steps, within limits: create without `--force` only adds, delete only takes
away, remove-clusters takes away from its own clusters only, and adds nothing, with one
exception. It ends with success only if there was no error and the traffic is what was
asked for; otherwise it fails, or is killed. The refinement mapping derives traffic from
the whole chain: rule, proxy, url map, default backend service, instance groups, firewall
port and tag.

The exception is `open`. The cloud applies a firewall rule without target tags to every
instance of the network, and a remove can leave such a rule: the tags of the clusters are
subtracted, and what remains is written even if it is empty
(`firewallrulesyncer.go:275`). `Backed` reads the rule as the cloud does (`Open`). A
create or a delete never opens it; a remove does only when nothing but its own clusters
was reached, and then others, whose create was killed before its last call, the firewall
rule, may be reached all at once; and while it is open a remove that succeeds may still
leave traffic to a cluster, if the annotation has come to name other groups.

### ConcurrentCommands

A process runs one create or remove-clusters (`Job`). Its local state is a record in
`proc`: what it read of services and instance groups, the resources it has still to
handle, and the copy of the one it works on. `get` reads a copy, `put` computes the
new value from the copy and writes it. `fingerprint` is what the code copies into the
update, and `update` lets the cloud refuse one that is out of date; it is a hash of
the content, so the content stands for it. Left out are the resources whose value does
not depend on what was read: health checks, proxies, rules, certificates. `Init` is no
load balancer, or one that an earlier create has made.

### IngressRouting, HealthProbes, CommandLine, SharedProject

* `IngressRouting`: `listPath` and `listRule` are the loops of `ingToNodePorts`, which
  lists the backends of the ingress; `ensureHealthCheck` and `ensureBackendService` go through the list, `routePath` and
  `routeRule` through the rules, `EnsureURLMap` writes the map. `hcMap`, `beMap`,
  `matcher` and `routes` are the Go maps of these loops. Between creates services
  change ports. The routes that an ingress asks for are defined a second time without
  loops (`Wanted`).
* `HealthProbes`: `getPath(c)` is one iteration of `getHealthCheckPath`, over the
  clusters in any order. A cluster returns a sequence of containers; `GetProbe`
  takes the first with a simple HTTP probe on the port of the service.
* `CommandLine`: `validateArgs`, `readFile`, `GetClients`, `serverVersionsNewEnough`,
  then one action per cluster for `EnsureIngress` and `DeleteIngress`. The load balancer
  syncer is one step that may fail. The user edits the file and the kubeconfig
  between commands.
* `Namer` has names as sequences of characters. In `SharedProject` a resource is the
  load balancer that its description names: create compares descriptions, delete does
  not. Commands run one after the other and may stop after any call.

### Abstractions

Of `Kubemci` and the modules under it:

* One load balancer, and one command at a time (`ConcurrentCommands` has several,
  `SharedProject` several load balancers).
* A resource keeps the fields that differ between two calls of the same syncer or
  that a link needs; fields that are always set to the same constants are left out.
  Names are replaced by their only variable part, the node port or the protocol
  (`SharedProject` has the names).
* A link to a resource with a fixed name is a Boolean ("a link was returned"). The
  cloud refuses an empty link.
* The get, the write and the get after it of one ensure method are one action. With
  one command at a time nobody else writes these resources; the failure of each of
  the three calls is an outcome of its own kind.
* `ingToNodePorts` reads all services of one cluster at one moment. A service named
  as default and in a path is ensured once, where the code ensures it twice with the
  same arguments. An ingress is a set of services (`IngressRouting` has rules and ports).
* A specification's `orders` is the number of orders in which Go can list its host
  and path rules. It is 1 for an ingress with at most one rule.
* The instances of a cluster are abstracted to the network tag the code reads. The
  supported Kubernetes versions are a set of clusters (`CommandLine` has versions), and
  a service has one probe per cluster (`HealthProbes` has pods).
* A description that is not a status is `None`.
* A certificate that a proxy uses cannot be deleted, as with the real API.
* The load balancers in `LegacyLBs` are those of an old kubemci that kept the status
  on the forwarding rule, a case the code still handles.

Definitions marked "Seeded fault" are plausible mistakes. No specification uses
them: they are substituted for the definition after them to see that the
properties notice.

## 3. The runs

Faults (failed or lost calls, and kills) are bounded by `MaxFaults` over a whole
behaviour; everything else is finite, so commands are run in any order and any number
of times (in `ConcurrentCommands`, one per process).

| Run | Instance | Distinct states |
|---|---|---|
| `membership` | two clusters, one HTTP service, old or no load balancer, 2 faults; creates for one, the other or both clusters, removal of any subset, delete; each with and without `--force` | 665,857 |
| `frontend` | one cluster with two instance groups; six ingresses with HTTP, HTTPS or both, two secrets, a pre-shared certificate, two addresses, no address, no default backend; deletes with and without clients; 1 fault | about 752,000 |
| `services` | one cluster, two services that exchange ports and disappear during commands; 1 fault, with fairness | about 400,000 |
| `concurrent` | three clusters; two removes (one forced) and an unforced create at the same time; 1 fault | 152,592 |
| `shared_names` | four load balancers: an empty name, one that fits with nothing to spare and ends in a dash, one a character too long for a backend service and cut after a dash, one too long for all; five kinds of resources | 470,183 |
| `routing` | five ingresses with rules of the same host, of two hosts, without a host, with equal and empty paths, not HTTP, without a default backend, in every order of hosts and paths; three tables of services; 1 fault | 506,063 |
| `probes` | three clusters, eleven lists of containers with probes of all kinds; 1 fault | 430,128 |
| `invocations` | four clusters at the borders of the supported versions, three kubeconfigs, three files, 28 command lines; 1 fault | 262,680 |

Why these bounds are enough: the syncers treat ports, protocols and clusters in
loops without relations between iterations, so two of each show every combination
of "this one worked, that one did not". One fault makes any one step of a command
fail while others succeed (a loop with several failing calls is one fault); a
second one lets a repair fail as well. Separate instances are used for separate
dimensions; `frontend` has no second cluster since nothing on the frontend depends
on clusters except the status, and `services` has no HTTPS.
The limit of 62 characters is 7 in `shared_names`, with prefixes of one and two
characters: `Truncate` only compares lengths, so what counts is that names of all
lengths around the limit occur, and prefixes of different lengths. Three processes
show a read-modify-write of two commands and a third one that comes between.
`RecreateSucceeds` and `ForcedCreateRecovers` speak of runs where the services keep
their ports: they are checked where `PortMaps` has one element.

What they show:

* `TypeOK` (frontend, which has an ingress without an address): nothing is written with a
  value that was not found. `References`: after every call, failure and kill, no rule,
  proxy, url map or backend service points to something that is not there.
* `CreateComplete`, `DeleteComplete`, `RemoveComplete`: a command that reports no
  error has done all of its work, whatever it started from.
* `RecreateSucceeds`: repeating a successful create succeeds, and the annotation that
  controllers add does not count as a difference.
* `ForcedCreateRecovers`: `create --force` repairs everything, except a certificate
  that is in use and has to be replaced.
* `NoOverwriteWithoutForce`, `IngressDeletedLast`, `StatusKeepsSomeCluster`,
  `DeleteInOrder`: what a step may not do. `StatusKeepsSomeCluster` is limited to
  commands that met no fault: if the url map cannot be read, the code takes the
  status of a forwarding rule for it, and an old one can let the last cluster go.
* `Terminates` (services): every command ends, with ingresses that are there, that a
  forced update has stripped of their annotation, and that are missing.
* `ImplementsService` (membership, frontend): all of that, seen from the
  clients. A create without `--force` never interrupts anybody and a remove never
  interrupts another cluster, not even half way or after a fault. `membership` reaches the
  remove that empties the tags and opens the firewall to a cluster that was not reached
  before; it is the only way in which a remove adds traffic.
* `ForcedCreateKeepsClusters`: a forced create of a load balancer that is serving keeps
  backend service, url map and firewall rule fitting at every step, as long as no call
  fails and the default service keeps its port.
* `RemovesTakeEffect`, `RemovesTouchOwnClusters`, `StatusTellsMembers`: for backend
  services and url map the fingerprint makes the read-modify-write safe. The first and
  third are stated without forced creates, which may overwrite by definition; that the
  second holds beside them is proved (section 4).
* `RoutesAsWritten`, `RoutedToItsService`: the loops compute what the ingress asks for,
  where it does not use two ports of one service. `RecreateWithoutForce`: run again they
  find nothing to change, where the ingress refers to each port in one way and there is
  one order to list its hosts and paths in.
* `PathOfEveryProbe`: the order of the clusters does not matter, except for which error
  is reported.
* `TouchesOnlyAsked`, `DeleteUndoesCreate`, `SupportedVersions`, `NamesAccepted`,
  `ShortNamesApart`, `ListedAsBuilt`: as listed in section 1. `ReferencesAcross`: a load
  balancer can lose a resource to another one with which it shares a name, but nothing is
  left that points nowhere, since create stops at what it was refused and delete takes
  the pointing resources first, whoever they name.

**Fairness.** `WF_vars(CommandStep)`: a process that can go on does so, and the
code has no wait except the poll. `WF_vars(Annotate(c))`: the controller of a
cluster writes its annotation in the end, which the poll without a limit relies on.
Weak fairness is enough, since a controller stays enabled until it has written.
Nothing is assumed of the user, of failures or of kills. Without the second
assumption create can wait forever.

### Disagreements between the code and what is said of it

Four runs are expected to end with a violation; each shows a short story.

| Run | Statement | What happens |
|---|---|---|
| `legacy_status` | `RemovedFromStatus`: "removes the given clusters from the LoadBalancerStatus" | the existing and the desired rule are the same object, so the status on a rule is never changed |
| `stale_cert` | `HTTPSProxyServesWantedCert`: "UrlMap is the only field that can be different" | `create --force` with another certificate succeeds and the proxy keeps the old one |
| `firewall_race` | `FirewallRemovesTakeEffect`: "removes the clusters ... from the firewall rule" | a firewall rule has no fingerprint; of two removes at the same time one puts the other's tag back |
| `service_ports` | `RoutesToOwnPort`: "services for all the given array of ports" | the map is keyed by service name, so the last of two ports gets the traffic of both (the only service table of the run has both ports) |

Other statements were found not to hold while the properties were written. They have
no run of their own; the properties are stated so that the case is left out, and the
model has the behaviour.

* `DeleteComplete` is about the ports that the delete found: a service that cannot be
  read is passed over (`loadbalancersyncer.go:569`), its backend service and health
  check stay, and the delete succeeds.
* `StatusKeepsSomeCluster` is about the status, and one command at a time. A create that
  could not get the instance groups of one cluster writes it into the status all the
  same; removing the other one then empties the backend services without `--force`. And
  two removes at the same time can both pass the check (`loadbalancersyncer.go:280`).
* `RecreateSucceeds` and `RecreateWithoutForce` (`OneOrder`) ask for one order of rules:
  url maps are compared as lists (`urlMapMatches`), which `desiredURLMap` fills in the
  order of map iteration (`urlmapsyncer.go:278`, `294`). With two hosts, or two paths of a
  host, a repeated create can find a difference and fail; the models have these orders.
* `RecreateWithoutForce` also asks that a port is not used by number and by name: the
  description of its resources contains the reference (`backendservicesyncer.go:259`).
* `ListedAsBuilt` asks for HTTP: an old load balancer whose ingress becomes HTTPS only
  keeps the status on its HTTP rule as well, and is listed twice
  (`loadbalancersyncer.go:448`).
* `ShortNamesApart` leaves out load balancers with names that are cut: the name of a
  backend service is cut earlier than that of a url map, so two load balancers can share
  it, and a delete or a create `--force` of one takes it from the other (`namer.go:124`).
* `NamesAccepted` says of the last character only that it is no "-" unless the name of the
  load balancer ends in one: the commands count their arguments and do not look at the
  name (`create.go:111`), so a name that ends in "-" and fits is sent to the cloud, which
  refuses it.
* `PathOfEveryProbe` takes the match of `GetProbe` for granted, which compares container
  ports with the port of the service and not with its target port (`utils.go:140`).
* No property rests on the validation of node ports: the errors of path services are
  dropped, `multierror.Append` without an assignment (`validations.go:61`).

## 4. The proofs

| Theorem | Statement |
|---|---|
| `KubemciProofs!TypeCorrect` | `Spec => []TypeOK` |
| `KubemciProofs!ReferencesHold` | `Spec => []References` |
| `KubemciProofs!DeleteCompletes` | `Spec => []DeleteComplete` |
| `KubemciProofs!DeletesInOrder` | `Spec => []DeleteInOrder` |
| `KubemciProofs!RemoveCompletes` | `Spec => []RemoveComplete` |
| `KubemciProofs!StatusKept` | `Spec => StatusKeepsSomeCluster` |
| `KubemciProofs!IngressGoesLast` | `Spec => IngressDeletedLast` |
| `KubemciProofs!CreateCompletes` | `Spec => []CreateComplete` |
| `KubemciProofs!NoOverwrites` | `Spec => NoOverwriteWithoutForce` |
| `KubemciProofs!ListsAsBuilt` | `Spec => []ListedAsBuilt` (1) |
| `KubemciProofs!ForcedCreatesRecover` | `Spec /\ [][ServicesKept]_vars => []ForcedCreateRecovers` (2) |
| `KubemciProofs!RecreatesSucceed` | `Spec /\ [][ServicesKept]_vars /\ ... => []RecreateSucceeds` (2, 3) |
| `KubemciProofs!CommandsImplementService` | `Spec => ImplementsService` (4) |
| `KubemciProofs!ForcedCreatesKeepClusters` | `Spec /\ [][ServicesKept]_vars /\ ... => ForcedCreateKeepsClusters` (2, 5) |
| `ConcurrentProofs!ConcurrentTypesHold` | `Spec => []ConcurrentTypeOK` |
| `ConcurrentProofs!RemovesKeepToTheirClusters` | `Spec => RemovesTouchOwnClusters` |
| `ConcurrentProofs!RemovesHold` | `Spec => []RemovesTakeEffect` |
| `ConcurrentProofs!StatusTells` | `Spec => []StatusTellsMembers` (6) |
| `CommandLineProofs!CommandLineTypesHold` | `Spec => []CommandLineTypeOK` |
| `CommandLineProofs!OnlyAskedTouched` | `Spec => TouchesOnlyAsked` |
| `CommandLineProofs!DeletesUndoCreates` | `Spec => []DeleteUndoesCreate` |
| `CommandLineProofs!VersionsSupported` | `Spec => []SupportedVersions` |
| `RoutingProofs!RoutesWritten` | `Spec => []RoutesAsWritten` |
| `RoutingProofs!RoutesKeepService` | `Spec => []RoutedToItsService` |
| `RoutingProofs!RecreatesWithoutForce` | `Spec => []RecreateWithoutForce` |
| `HealthProbesProofs!HealthCheckPath` | `Spec => []PathOfEveryProbe` |
| `SharedProjectProofs!AllNamesAccepted` | `Spec => []NamesAccepted` |
| `SharedProjectProofs!ShortNamesKeptApart` | `Spec => ShortNamesApart` |
| `SharedProjectProofs!ReferencesKept` | `Spec => []ReferencesAcross` |

They hold for all sets of clusters, services, ports, specifications, commands and any
bound on faults, those of `ConcurrentProofs` for any set of processes and any jobs, those
of `CommandLineProofs` for any files, kubeconfigs, versions and command lines, those of
`RoutingProofs` for ingresses with any number of rules and paths, those of
`HealthProbesProofs` for any number of clusters and containers, and those of
`SharedProjectProofs` for names, prefixes and limits of any length. Six have hypotheses
of their own, which the instances of section 3 that check the property satisfy:

1. No load balancer that is found at the beginning has a status on its HTTPS rule. An
   ingress for HTTP would leave that rule alone, and `list` would show it as well.
2. No service changes while a command runs (`pc # "idle" => nodePort' = nodePort`).
   Create reads the node ports of one cluster once; what it then finds in another may
   not agree any more.
3. When a create ends, its services are on the same node ports in all its clusters. The
   validation does not ensure this (section 3), create reads the ports of any one
   cluster, and the second run may read those of another.
4. `ClustersApart`: clusters do not share instance groups or network tags. A
   remove-clusters identifies what belongs to a cluster by these.
5. A create `--force` is one that can succeed (`Creatable`, as in `ForcedCreateRecovers`).
   One without a default backend, or whose default service is gone, keeps the old url
   map, goes on, and closes the firewall for the port that the map still points to.
6. `OneIngress`: the commands mean the same services, which have the same node ports in
   all clusters, and clusters do not share instance groups. A remove for other services,
   or one that reads other ports in its cluster, leaves a backend service alone that the
   status speaks of.

Assumptions, all on constants, and all evaluated by TLC:

* types: `ConfigAssumption`, `CommandLineAssumption`, `ProjectAssumption`;
* `None` is not a resource, a name, a port, an ingress, a reason to stop or a job:
  `NoneAssumption`, `NoneOfJobs`, `NoneOfCommandLine`, and `NoneOfHealthChecks`,
  `NoneOfBackendServices`, ... in each syncer;
* `PortMapsAssumption`: in a cluster a node port belongs to one service;
  `RoutingAssumption` says the same of the tables of services, besides types, and that an
  HTTP rule has a path, which the API server requires;
* `LegacyAssumption`: a load balancer that is found at the beginning is whole, and its
  annotations name instance groups of their cluster;
* `JobAssumption`: a process runs a create or a remove for some cluster, with an address;
  "fw" and "um" are not node ports;
* `ProbeAssumption`: types, and that a path starts with "/" or is given one;
* `NamerAssumption`: a prefix is shorter than the limit and does not end in "-", and no
  prefix with its delimiter begins another one. A load balancer may have any name.

How the proofs go:

* `CloudAPIProofs`: what outcomes of `Ensure`, `Create`, `Delete` and of choices can
  be: the type of their result, that an ensure without an error leaves a resource,
  that a failed one only removes it where it updates by delete and create, that a
  resource in use survives a delete.
* `SyncerProofs`: the same for each method of each syncer, once for the type of the
  result, once for what it keeps and ensures. Both specifications use these lemmas.
* `KubemciProofs`, part 1: `TypeOK` is not inductive. A url map's status and a rule have an
  address, which the ingress may not have; that the command returned early in that
  case has to be remembered. `StepKnows` says so: after `nodePorts` the address is
  known, and at `sslCert` there is a certificate to ensure. `TypeInv == TypeOK /\
  StepKnows` is inductive.
* Part 1 as well: `References` is not inductive either. A create writes a
  resource long after it got the links it puts there. `LinksValid` says that the
  links in `loc` point to existing resources for as long as the command holds them,
  and that a delete holds none. Then every ensure writes valid links, an update by
  delete and create only removes what nothing points to (a rule; a certificate that
  is not in use), and the cloud protects what is in use from deletes.
  `Linked == References /\ LinksValid` is inductive with `TypeInv`.
* Part 2: `BaseInv` adds to the types that a command is at a step of its own
  (`OwnSteps`). On it stand three invariants, each of the form "what the steps behind
  the command have done". `DeleteInv`: without an error everything before the current
  step is gone (`DeletedSoFar`), and without a fault there is no error, since what
  could use a resource is gone before it. `IGsInv`: the instance groups in `loc` are
  those of asked clusters whose ingress has been annotated, and they are complete
  unless an error was recorded. `RemoveInv`: the clusters are out of what the steps
  behind have handled (`RemovedSoFar`), and what the check of the status found still
  holds when the status is written (`StatusChecked`).
* Part 3: first an *effect* lemma per step, which says what it changes and what
  an outcome without an error guarantees; the other proofs only use these. `BuiltSoFar`
  follows the steps of create: each part says what has been built once its step is
  behind, in the terms that the next step needs (the links in `loc`, not only the
  resources). Its parts concern different resources, so most steps keep most parts
  (`BackendKept`, `URLMapKept`, `FrontendStep`). `ForcedInv` is the converse for
  `--force`: as long as no call failed there is no error, but for a certificate in use;
  for this the ports found must be the ports of all services in all clusters.
* Part 4: `Fits(c)` says that every syncer that the create `c` calls finds what it looks
  for. `FitInv` follows the steps of create as `BuiltSoFar` does, but in terms of the
  services and not of the links in `loc`, which are gone when the command returns; so
  a create that succeeded leaves a load balancer that fits it, and the controllers keep
  it so. `RepeatInv` follows the second run: at each step the
  cloud still fits, and what the command holds is what the first run held, so no
  syncer sees a difference and there is no error without a fault.
* Part 5: the step simulation. `OwnGroups` (annotations and links name
  instance groups of their own cluster) makes what a remove takes out traffic of its
  clusters. `SomeKnown` (a create that gets past the named ports has the instance groups of
  some cluster) keeps create from making a firewall rule without tags. Then: a step of an
  unforced create keeps traffic, one of a delete only takes some away, one of a remove
  only from its clusters, and it adds some only where it opens the firewall, when all that
  was reached is to be removed (`RemoveStopsTraffic`, `StepAllowed`); and a command that
  succeeds has achieved its job (`SuccessAchieves`, from `CreateComplete`,
  `DeleteComplete` and `RemoveComplete`).
* Part 6: three steps of a create `--force` rewrite a part of the way to a cluster. The
  backend services get the groups of all clusters, since no error was met before them
  (`ForcedInv`); the url map is not left half done, for the same reason. The firewall
  rule may be written after an error, that of the certificate; `KeepInv` carries to it
  that the port of the default backend and all clusters are among those it opens.
* `ConcurrentProofs`: `ConcurrentInv` adds two things to the types: the url map always
  has a status (so that a remove can take clusters out of it), and `LocalOK`, what a
  process knows at each step (it works on one resource, of a port that it has found,
  and the copy is of that kind). From it follows what a single `put` can do
  (`RemoveOutcome`): the fingerprint forces the copy to be the current value, so a
  remove takes its own clusters out of the *current* resource. That is
  `RemovesTouchOwnClusters`. For `RemovesTakeEffect` two more facts are needed. Without
  a forced create no step brings a cluster back (`Shrinks`): an unforced create only
  inserts where there is nothing, and removes only shrink. And `EffectInv` says of
  every process on its way, not only at the end, that the resources it has dealt with
  without an error exist and are without its clusters; `Shrinks` keeps this true under
  the steps of all others. `StatusTellsMembers` relates resources that different steps
  write. `MembersInv` says that, as long as no command has met an error or missed a
  service (`Fine`), the status and each backend service agree on every cluster (`Agree`)
  but for those that a remove has taken out of one of them so far (`Taken`); and that
  before there is a url map the backend services are as the creates want them
  (`BeforeMap`), since no remove gets past reading the status.
* `CommandLineProofs`: what a command has read lies behind it when it calls the clusters.
  `CommandKnows` carries it along: the ingress is the one that the file and the flags
  mean, the clusters left are among those asked for and in the kubeconfig, and a delete
  without an error has emptied those that are not left. `MadeAsRead` says that the last
  create took its namespace from the file as it still is. That the version check accepts
  exactly the supported versions is a lemma on numbers (`NewEnough`).

* `RoutingProofs`: `IngressRouting` takes the loops of the code one iteration at a time,
  so that no induction over sequences is needed: `WorkInv` says for each loop what is done
  up to its counters (`PortsUpTo`, `HealthUpTo`, `BackendsUpTo`, `MatcherUpTo`,
  `RoutesUpTo`), an iteration extends it by one entry, and at the end it says what the
  definition without loops says (`MatcherComplete`, `RoutesComplete`). The map of backend
  services is keyed by service, so what counts is the last entry of a service
  (`LastPort`); with one port per service it is its only one. A create that succeeded
  leaves the resources `Settled`, and `StableInv` says that running it again, each loop
  finds them so. That the url map is the same as before, its order included, follows
  from there being one listing of a set with at most one element (`OneListing`,
  `SameMap`).
* `HealthProbesProofs`: `LoopInv` is about the clusters that were asked so far: unless
  there was an error, the path is the one that all of them ask for.
* `SharedProjectProofs`: a cut name has the length of the limit and one more character,
  which is not "-"; a name that is not cut ends as the load balancer's does, or is a prefix
  (`NamesFit`). A name that is not cut determines its kind and its load
  balancer, and is not the result of a cut (`ShortNameApart`). `OwnerInv` says that a
  resource belongs to a load balancer that uses its name. For `ReferencesAcross`,
  `EnsuredInv` says that a create owns whatever it has dealt with and was not refused.

Only model-checked: `Terminates`, since liveness under fairness is out of the prover's
reach, and the four disagreements, which are false. All other properties of the runs are
stated by a theorem above.

## 5. Not modelled

* `version`, `main`, and the way cobra dispatches commands: no state.
* The cloud interface, the instance getter and the parsing of URLs: thin wrappers of the
  client libraries. What they call is in `CloudAPI` as a call that may fail; an
  instance is its first network tag.
* The text of things: YAML, the JSON of the status, the regular expression of
  `parseVersion`, the layout of what is printed, the hash that names a path matcher.
* The constant fields of the resources, and networks: the code takes the network of one
  instance for that of all.
* Clusters whose instances share a tag; the code states that it assumes they do not
  (`firewallrulesyncer.go:268`).
* The named ports of single instance groups, and a service whose target port is not its
  port (section 3).
* The fakes, the end-to-end tests and the example server: they are not the program. The
  tests' expectations are a source of properties.

## 6. Plan

Done: the modules of section 2, the runs of section 3, the theorems of section 4.

1. *Recovery*: after the last fault, repeating `create --force`, or `delete`,
   eventually gives a complete or an empty load balancer (liveness, TLC).
2. `delete` as a third job of `ConcurrentCommands`.
