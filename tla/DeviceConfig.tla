---------------------------- MODULE DeviceConfig ----------------------------
(***************************************************************************)
(* Which config applies to an allocation result of a claim                 *)
(* (GetOpaqueDeviceConfigs and resultsByConfig in state.go): configs come  *)
(* from the classes of the requests and from the claim, in one list, for   *)
(* several drivers.  The interface name of a NIC, IfaceOf in DeviceState,  *)
(* is that of its config.  The webhook, where it is deployed, has seen the *)
(* configs of the claim before (cmd/kube-ovn-dra-webhook); those of the    *)
(* classes never pass it.                                                  *)
(*                                                                         *)
(* A config is told by its place in the list; place 0 is the default.  The *)
(* two loops of GetOpaqueDeviceConfigs take a step for each config.        *)
(***************************************************************************)
EXTENDS Integers, Sequences

CONSTANTS
  Request,          \* the names of requests and subrequests
  BaseRequestRef,   \* BaseRequestRef[r]: the request of a subrequest, or r itself
  Requests,         \* the lists of requests a config can name, as sets
  MaxConfigs        \* bound: configs of a claim

ASSUME ConfigAssumption ==
  /\ BaseRequestRef \in [Request -> Request]
  /\ Requests \subseteq SUBSET Request
  /\ MaxConfigs \in Nat

VARIABLES
  configs,   \* claim.Status.Allocation.Devices.Config
  webhook,   \* "none" before, "allowed", "denied", or "absent": it is not deployed
  stage,     \* where Prepare is
  pos,       \* the config that the loop has come to
  classConfigs, claimConfigs, candidateConfigs, resultConfigs,
  applied    \* applied[r]: the config of a result for r, once stage is "done"

lists == <<classConfigs, claimConfigs, candidateConfigs, resultConfigs>>
configVars == <<configs, webhook, stage, pos, lists, applied>>

\* What its opaque parameters make of a config: "ours" decodes and is valid,
\* "misnamed" decodes and its interface name is not valid, "broken" is ours and does
\* not decode, "theirs" is of another driver, "unknown" is not opaque.
Config == [source : {"class", "claim", "other"},
           kind : {"ours", "misnamed", "broken", "theirs", "unknown"},
           requests : Requests]

\* The decoder of the webhook and of the plugin is the same, and strict.
Decodes(config) == config.kind \in {"ours", "misnamed"}

\* NicConfig.Validate; only the webhook calls it.
Validate(config) == config.kind # "misnamed"

\* admitResourceClaimParameters: every config of the driver in a claim or a template
\* has to decode and be valid; those of others are none of its business.
BugAdmit(cs) ==   \* the configs are decoded and not validated
  \A i \in 1..Len(cs) : cs[i].source = "claim" /\ cs[i].kind \notin {"theirs", "unknown"}
    => Decodes(cs[i])
admitResourceClaimParameters(cs) ==
  \A i \in 1..Len(cs) : cs[i].source = "claim" /\ cs[i].kind \notin {"theirs", "unknown"}
    => Decodes(cs[i]) /\ Validate(cs[i])

\* configMatchesRequest.
configMatchesRequest(requests, r) ==
  requests = {} \/ r \in requests \/ BaseRequestRef[r] \in requests

ConfigInit ==
  /\ configs \in UNION {[1..n -> Config] : n \in 0..MaxConfigs}
  /\ webhook = "none"
  /\ stage = "create"
  /\ pos = 1
  /\ classConfigs = <<>> /\ claimConfigs = <<>>
  /\ candidateConfigs = <<>> /\ resultConfigs = <<>>
  /\ applied = <<>>

\* The claim is created, with or without the webhook, and prepared if it exists.
CreateClaim ==
  /\ stage = "create"
  /\ \/ webhook' = "absent" /\ stage' = "sort"
     \/ admitResourceClaimParameters(configs) /\ webhook' = "allowed" /\ stage' = "sort"
     \/ ~admitResourceClaimParameters(configs) /\ webhook' = "denied" /\ stage' = "denied"
  /\ UNCHANGED <<configs, pos, lists, applied>>

-----------------------------------------------------------------------------
(* GetOpaqueDeviceConfigs                                                  *)

\* The switch on the source of the next config.
SwitchSource ==
  /\ stage = "sort" /\ pos <= Len(configs)
  /\ LET source == configs[pos].source
     IN /\ classConfigs' = IF source = "class" THEN Append(classConfigs, pos) ELSE classConfigs
        /\ claimConfigs' = IF source = "claim" THEN Append(claimConfigs, pos) ELSE claimConfigs
        /\ stage' = IF source \in {"class", "claim"} THEN "sort" ELSE "error"
  /\ pos' = pos + 1
  /\ UNCHANGED <<configs, webhook, candidateConfigs, resultConfigs, applied>>

\* The lowest precedence first.
BugCandidates ==   \* the configs of the classes come last
  /\ stage = "sort" /\ pos > Len(configs)
  /\ candidateConfigs' = claimConfigs \o classConfigs
  /\ stage' = "decode" /\ pos' = 1
  /\ UNCHANGED <<configs, webhook, classConfigs, claimConfigs, resultConfigs, applied>>
Candidates ==
  /\ stage = "sort" /\ pos > Len(configs)
  /\ candidateConfigs' = classConfigs \o claimConfigs
  /\ stage' = "decode" /\ pos' = 1
  /\ UNCHANGED <<configs, webhook, classConfigs, claimConfigs, resultConfigs, applied>>

\* The next candidate is decoded, if it is of the driver; any config that is not
\* understood fails the whole claim.
Decode ==
  /\ stage = "decode" /\ pos <= Len(candidateConfigs)
  /\ LET i == candidateConfigs[pos]
     IN /\ resultConfigs' = IF Decodes(configs[i]) THEN Append(resultConfigs, i) ELSE resultConfigs
        /\ stage' = IF configs[i].kind \in {"broken", "unknown"} THEN "error" ELSE "decode"
  /\ pos' = pos + 1
  /\ UNCHANGED <<configs, webhook, classConfigs, claimConfigs, candidateConfigs, applied>>

-----------------------------------------------------------------------------

\* The configs with the default, which matches every request, in front.
WithDefault == <<0>> \o resultConfigs
Matches(i, r) == i = 0 \/ configMatchesRequest(configs[i].requests, r)

\* Where the loop over slices.Backward(configs) breaks.
Break(r) ==
  CHOOSE k \in 1..Len(WithDefault) :
    /\ Matches(WithDefault[k], r)
    /\ \A m \in k+1..Len(WithDefault) : ~Matches(WithDefault[m], r)

\* The rest of resultsByConfig, for a result of each request.
resultsByConfig ==
  /\ stage = "decode" /\ pos > Len(candidateConfigs)
  /\ applied' = [r \in Request |-> WithDefault[Break(r)]]
  /\ stage' = "done"
  /\ UNCHANGED <<configs, webhook, pos, lists>>

ConfigNext == CreateClaim \/ SwitchSource \/ Candidates \/ Decode \/ resultsByConfig

ConfigSpec == ConfigInit /\ [][ConfigNext]_configVars

-----------------------------------------------------------------------------
(* Properties                                                              *)

\* Configs that can apply to a result for r.
Applicable(r) ==
  {i \in 1..Len(configs) :
     Decodes(configs[i]) /\ configMatchesRequest(configs[i].requests, r)}

\* GetOpaqueDeviceConfigs: "Configs coming directly from the resource claim take
\* precedence over configs coming from the device class", and later ones over
\* earlier ones of the same source.
Beats(i, j) ==
  \/ configs[i].source = "claim" /\ configs[j].source = "class"
  \/ configs[i].source = configs[j].source /\ i > j

\* The config that applies to a result beats every other applicable one; the
\* default applies only where there is none; and a config that names a request
\* applies to each of its subrequests, however the list mixes sources and drivers.
HighestPrecedence ==
  stage = "done" => \A r \in Request :
    IF Applicable(r) = {} THEN applied[r] = 0
    ELSE /\ applied[r] \in Applicable(r)
         /\ \A j \in Applicable(r) \ {applied[r]} : Beats(applied[r], j)

\* What the webhook lets through, Prepare takes: of a claim it allowed, no config
\* makes Prepare fail but one that is not opaque or is not of the claim, and an
\* interface name that is not valid comes from a class.
AdmittedIsTaken ==
  webhook = "allowed" =>
    /\ stage = "error" =>
         \E i \in 1..Len(configs) : configs[i].source # "claim" \/ configs[i].kind = "unknown"
    /\ stage = "done" => \A r \in Request :
         applied[r] # 0 /\ ~Validate(configs[applied[r]]) => configs[applied[r]].source = "class"

=============================================================================
