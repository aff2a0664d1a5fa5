--------------------------- MODULE MCGraphOutbox ---------------------------
(* Model-checking instance of GraphOutbox: the payloads.                   *)
EXTENDS GraphOutbox

CONSTANTS w1, m1, m2, x1, l1, p1, d1, a1, a2, t1, k1

(* Two revisions of a workflow: the second drops the tool of its agent.    *)
MCWorkflowRefs ==
  {[NoRefs EXCEPT !.agent = {a1}, !.tool = {k1}, !.canUse = {<<a1, k1>>},
                  !.task = {t1}, !.assigned = {<<t1, a1>>}],
   [NoRefs EXCEPT !.agent = {a1}]}
MCWorkflowRef == {[NoRefs EXCEPT !.agent = {a1}]}
MCMemoryRef == {[NoRefs EXCEPT !.agent = {a1}]}
MCLinkRefs == {[NoRefs EXCEPT !.workflow = {w1}, !.memory = {m1}]}
MCHintRefs == {[NoRefs EXCEPT !.entity = {a2}]}
MCPersonaEvents == {<<"persona.factory.distilled",
                      [NoRefs EXCEPT !.sourceMemories = {m1}]>>}
MCRunEvents ==
  {<<"execution.started", [NoRefs EXCEPT !.workflow = {w1}]>>,
   <<"task.started", [NoRefs EXCEPT !.task = {t1}, !.agent = {a1}]>>,
   <<"tool.call.failed", [NoRefs EXCEPT !.toolCall = {k1}]>>}
MCNothing == [x \in {} |-> NoRefs]
\* The old memory is superseded.
MCInactive == {[NoRefs EXCEPT !.document = {d1}, !.supersedes = {m2}]}
MCOldRecords ==
  [x \in {w1, m1, l1} |->
     CASE x = w1 -> NoRefs
       [] x = m1 -> [NoRefs EXCEPT !.document = {d1}, !.supersedes = {m2}]
       [] x = l1 -> [NoRefs EXCEPT !.workflow = {w1}, !.memory = {m1}]]
MCUploads == {<<d1, Memories \ DOMAIN Before>>}
=============================================================================
