------------------------------- MODULE MCDetail -------------------------------
(***************************************************************************)
(* The detail page with one of its tenants at a time: the Logs tab and the *)
(* cards of the Overview, the YAML tab, the Env tab, the terminal, or the  *)
(* dialogs of the header.  The tenants share nothing but the page.         *)
(***************************************************************************)
EXTENDS TLC, DetailCards, YamlTab, PodEnv, PodTerminal, ResourceDialogs

CONSTANTS pod, pod2, deployment, cronjob, node

VARIABLE part

vars == <<part, page, cardVars, yamlVars, envVars, execVars, dialogVars>>

MCKind == pod :> "Pod" @@ pod2 :> "Pod" @@ deployment :> "Owner" @@ cronjob :> "Other" @@ node :> "Node"

(* Containers for the Env tab.  Variables pa and a come from an import     *)
(* with a prefix, from one without, or from the container itself.          *)
import(prefix, source) == [prefix |-> prefix, source |-> source]

entry(name, k, source, key) == [name |-> name, kind |-> k, source |-> source, key |-> key]

config == <<"ConfigMap", "x">>
secret == <<"Secret", "x">>

MCData == config :> (<<"a">> :> <<"1">> @@ <<"p", "a">> :> <<"2">>) @@ secret :> (<<"a">> :> <<"3">>)

MCContainer(envFrom, env) == [name |-> "main", type |-> "container", envFrom |-> envFrom, env |-> env]

MCUsual ==
    <<MCContainer(<<import(<<>>, config), import(<<"p">>, secret)>>,
                  <<entry(<<"a">>, "literal", <<"inline">>, <<"0">>)>>)>>

MCPlain == <<MCContainer(<<>>, <<>>)>>

MCDeclarations ==
    {MCUsual,
     <<MCContainer(<<import(<<>>, secret), import(<<>>, config)>>,
                   <<entry(<<"ip">>, "field", <<"fieldRef">>, <<"status">>),
                     entry(<<"p", "a">>, "literal", <<"inline">>, <<"0">>),
                     entry(<<"p", "a">>, "secret", secret, <<"a">>)>>)>>,
     <<[MCContainer(<<import(<<>>, secret)>>, <<>>) EXCEPT !.name = "setup", !.type = "init"],
       MCContainer(<<import(<<>>, secret), import(<<>>, secret)>>,
                   <<entry(<<"a">>, "configmap", config, <<"b">>)>>)>>,
     MCPlain}

MCDebug == <<[MCContainer(<<import(<<>>, config)>>, <<>>) EXCEPT !.name = "debug", !.type = "ephemeral"]>>

(* What each tenant is exercised on: its routes, and how often the page    *)
(* loads and its objects change.                                           *)
Scope ==
    [cards    |-> [routes |-> {pod, deployment}, loads |-> 3, edits |-> 1],
     yaml     |-> [routes |-> {pod, cronjob}, loads |-> 3, edits |-> 2],
     env      |-> [routes |-> {pod, pod2}, loads |-> 2, edits |-> 1],
     terminal |-> [routes |-> {pod, pod2}, loads |-> 2, edits |-> 1],
     dialogs  |-> [routes |-> {deployment, pod}, loads |-> 3, edits |-> 1],
     toggles  |-> [routes |-> {cronjob, node}, loads |-> 2, edits |-> 1]]

Init ==
    /\ part \in DOMAIN Scope
    /\ PageInit /\ CardsInit /\ YamlInit /\ EnvInit /\ ExecInit /\ DialogInit
    /\ declared[pod2] = MCUsual /\ (part # "env" => declared[pod] = MCPlain)

InScope ==
    /\ target' \in Scope[part].routes \cup {None}
    /\ \A t \in Targets \ Scope[part].routes : server'[t] = server[t]
    /\ loading' => generation' <= Scope[part].loads
    /\ edits' <= Scope[part].edits
    /\ del'.confirmation \in Scope[part].routes \cup {None}

(* Off the page for good, with nothing left in flight.                     *)
Gone ==
    /\ target = None /\ generation >= Scope[part].loads
    /\ UNCHANGED <<page, cardVars, yamlVars, envVars, execVars, dialogVars>>

Next ==
    /\ UNCHANGED part
    /\ \/ part = "cards" /\ CardsNext /\ UNCHANGED <<yamlVars, envVars, execVars, dialogVars>>
       \/ part = "yaml" /\ YamlNext /\ UNCHANGED <<cardVars, envVars, execVars, dialogVars>>
       \/ part = "env" /\ EnvNext /\ UNCHANGED <<cardVars, yamlVars, execVars, dialogVars>>
       \/ part = "terminal" /\ ExecNext /\ UNCHANGED <<cardVars, yamlVars, envVars, dialogVars>>
       \/ part \in {"dialogs", "toggles"} /\ DialogNext /\ UNCHANGED <<cardVars, yamlVars, envVars, execVars>>
       \/ Gone
    /\ InScope

Spec == Init /\ [][Next]_vars
=============================================================================
