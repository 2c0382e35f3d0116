--------------------------- MODULE PluginStoreMC ---------------------------
(* PluginStore on a few versions, which are interchangeable.               *)
EXTENDS PluginStore, TLC

VersionSymmetry == Permutations(Digests)

============================================================================
