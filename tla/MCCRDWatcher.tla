---------------------------- MODULE MCCRDWatcher ----------------------------
EXTENDS CRDWatcher, TLC

(* Namespaces: two that share a label, and one whose name ends like another. *)
Shop == <<"shop">>
Test == <<"test">>
SystemNs == <<"wormsign", "system">>

Object(kind, ns, name) == [kind |-> kind, namespace |-> ns, name |-> name]

Det == Object("Detector", Shop, "d")
Gat == Object("Gatherer", Shop, "g")
Snk == Object("Sink", Shop, "s")
Pol1 == Object("Policy", Shop, "p")
Pol2 == Object("Policy", SystemNs, "q")

MCObjects == {Det, Gat, Snk, Pol1, Pol2}

(* Two goroutines handle policies, as in the tests of the watcher.           *)
MCHandlerOf == [o \in MCObjects |-> IF o.kind = "Policy" THEN o.name ELSE o.kind]

Action(type, name) ==
    [type |-> type, apiVersion |-> "v1", resource |-> "pods", listAll |-> FALSE,
     name |-> name]

Webhook(url, ref, template) == [url |-> url, secretRef |-> ref, template |-> template]

NoSelector == {}

Labelled(key, value) ==
    {[matchLabels |-> key :> value, matchExpressions |-> {}]}

Required(key, op, values) ==
    {[matchLabels |-> <<>>,
      matchExpressions |-> {[key |-> key, operator |-> op, values |-> values]}]}

Glob(text, star) == [text |-> text, star |-> star, malformed |-> FALSE]

PolicySpec(action, detectors, nsSelector, match, schedule) ==
    [action |-> action, detectors |-> detectors, namespaceSelector |-> nsSelector,
     match |-> match, schedule |-> schedule]

(* A maintenance window; the pods of one deployment; a selector where the    *)
(* documentation has none; a window on an Exclude policy, which is invalid.  *)
ShopPolicies == {
    PolicySpec("Suppress", {}, NoSelector, {}, {[start |-> 1, end |-> 2]}),
    PolicySpec("Exclude", {}, NoSelector,
               {[resourceSelector |-> NoSelector, ownerNames |-> {Glob(<<"web">>, TRUE)}]}, {}),
    PolicySpec("Exclude", {}, Required("team", "Exists", {}), {}, {}),
    PolicySpec("Exclude", {}, NoSelector, {}, {[start |-> 0, end |-> 2]})}

(* One detector in the labelled namespaces; what is not of tier front and    *)
(* has some owner.                                                           *)
SystemPolicies == {
    PolicySpec("Suppress", {"PodFailed"}, Labelled("team", "a"), {}, {}),
    PolicySpec("Exclude", {}, Required("team", "Exists", {}),
               {[resourceSelector |-> Required("tier", "NotIn", {"front"}),
                 ownerNames |-> {Glob(<<>>, TRUE)}]}, {})}

DetectorSpecs == {
    [resource |-> "pods", condition |-> "c1", compiles |-> TRUE, severity |-> "info"],
    [resource |-> "pods", condition |-> "c2", compiles |-> TRUE, severity |-> "warning"],
    [resource |-> "pods", condition |-> "c3", compiles |-> FALSE, severity |-> "info"],
    [resource |-> "pods", condition |-> "c1", compiles |-> TRUE, severity |-> "fatal"]}

GathererSpecs == {
    [resourceKinds |-> {"Pod"}, detectors |-> {}, collect |-> {Action("resource", "n")}],
    [resourceKinds |-> {}, detectors |-> {"PodFailed"}, collect |-> {Action("logs", "")}],
    [resourceKinds |-> {"Pod"}, detectors |-> {},
     collect |-> {Action("logs", ""), Action("resource", "")}]}

SinkSpecs == {
    [type |-> "webhook", webhook |-> {Webhook("u", {}, "")}, severityFilter |-> {"info"}],
    [type |-> "webhook", webhook |-> {Webhook("", {"r"}, "t")}, severityFilter |-> {}],
    [type |-> "webhook", webhook |-> {Webhook("u", {"r"}, "")}, severityFilter |-> {}],
    [type |-> "webhook", webhook |-> {Webhook("u", {}, "unparsable")}, severityFilter |-> {}],
    [type |-> "s3", webhook |-> {}, severityFilter |-> {}]}

MCSpecs ==
    Det :> DetectorSpecs @@ Gat :> GathererSpecs @@ Snk :> SinkSpecs
    @@ Pol1 :> ShopPolicies @@ Pol2 :> SystemPolicies

Namespace(name, labels, annotations) ==
    [name |-> name, labels |-> labels, annotations |-> annotations]

Owner(name, annotations) == [name |-> name, annotations |-> annotations]

Input(detector, labels, annotations, ns, owners) ==
    [detector |-> detector, labels |-> labels, annotations |-> annotations,
     namespace |-> ns, owners |-> owners]

Plain == Namespace(Shop, "team" :> "a", <<>>)

MCInputs == {
    Input("PodFailed", NilLabels, <<>>, Plain, {Owner(<<"web", "rs">>, <<>>)}),
    Input("PodCrashLoop", "tier" :> "front", <<>>, Plain, {}),
    Input("PodFailed", "tier" :> "back", "exclude-detectors" :> {"PodFailed", ""},
          Namespace(Test, <<>>, <<>>), {}),
    Input("PodFailed", <<>>, <<>>, Namespace(Test, "team" :> "b", <<>>),
          {Owner(<<"job">>, "exclude" :> "no")})}

MCScenes == {
    [objects |-> {Det, Gat}, inputs |-> {}],
    [objects |-> {Snk}, inputs |-> {}],
    [objects |-> {Pol1, Pol2}, inputs |-> MCInputs]}

Alternative(text) == [text |-> text, openStart |-> FALSE, openEnd |-> FALSE]

(* kube-.*, and "sandbox"                                                    *)
MCExcludeNamespaces == {
    <<[text |-> <<"kube">>, openStart |-> FALSE, openEnd |-> TRUE]>>,
    <<Alternative(<<"sandbox">>)>>}

MCExcludeNamespaceSelector == Labelled("wormsign", "off")
=============================================================================
