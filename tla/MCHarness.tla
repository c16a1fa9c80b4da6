----------------------------- MODULE MCHarness -----------------------------
(* The plugin tree of resources/cordis.yml, cut down to the plugins that     *)
(* have effects and to one plugin that only registers, and two patch files:  *)
(* one that replaces a row and one that adds a plugin claiming a taken key.  *)
EXTENDS Harness
CONSTANTS runtime, state, jobs, ocr, extra

service(k) == [kind |-> "service", key |-> k]
effect == [kind |-> "effect", key |-> "none"]
attach(kind, k) == [kind |-> kind, key |-> k]

MCPlugins == {runtime, state, jobs, ocr, extra}
MCBase == <<runtime, state, jobs, ocr>>
MCPatches == {<<>>, <<jobs, extra>>}
MCProgram ==
  [p \in MCPlugins |->
     CASE p = runtime -> <<service("RuntimeService"), effect>>
       [] p = state -> <<service("StateBackend"), effect>>
       [] p = jobs -> <<effect, service("JobQueue"), effect>>
       [] p = ocr -> <<service("JobRunner"), attach("listener", "JobQueued"),
                       attach("listener", "JobFailed"), attach("router", "ocr")>>
       [] p = extra -> <<attach("listener", "JobQueued"), effect,
                         attach("router", "extra"), service("JobQueue")>>]
MCPruner == <<runtime, 2>>
MCCloser == <<state, 2>>
=============================================================================
