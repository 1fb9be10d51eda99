----------------------------- MODULE MCWebhook -----------------------------
(* Model-checking instance of Webhook: one object name per resource, two  *)
(* policy contents (so a lost update is visible) and one binding content, *)
(* requests on policies of both API groups, on a binding and on one       *)
(* ordinary resource.                                                      *)
EXTENDS Webhook

CONSTANTS n1

MCNames == {n1}
MCGens == {1, 2}
\* The binding informer only gates readiness here: one binding content.
MCBindingGens == {1}
MCResources ==
    {[group |-> "admissionregistration.k8s.io", resource |-> "validatingadmissionpolicies"],
     [group |-> "admissionregistration.x-k8s.io", resource |-> "validatingadmissionpolicies"],
     [group |-> "admissionregistration.x-k8s.io", resource |-> "validatingadmissionpolicybindings"],
     [group |-> "apps", resource |-> "deployments"]}

=============================================================================
