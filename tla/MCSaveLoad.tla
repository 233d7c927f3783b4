----------------------------- MODULE MCSaveLoad -----------------------------
(* Instances of SaveLoad for TLC.                                          *)
EXTENDS SaveLoad, TLC

CONSTANTS ta, tb, tc, base, extra

Mod(i, v) == [id |-> i, version |-> v]

\* A manifest at the target version, an old one, one without a migration
\* path, and one with three tables related in a ring.
MCManifest(v, ts, edges) ==
  [version |-> v, tables |-> ts, relations |-> edges,
   mods |-> {Mod(base, 1), Mod(extra, 1)}]
MCManifests ==
  {MCManifest(2, <<ta, tb>>, <<<<ta, tb>>>>), MCManifest(0, <<ta, tb>>, <<>>),
   MCManifest(3, <<ta>>, <<>>),
   MCManifest(2, <<ta, tb, tc>>, <<<<ta, tb>>, <<tb, tc>>, <<tc, ta>>>>)}
MCPipeline == <<[from |-> 0, to |-> 1], [from |-> 1, to |-> 2],
                [from |-> 1, to |-> 3]>>
MCModSets ==
  {{Mod(base, 1), Mod(extra, 1)}, {Mod(base, 2), Mod(extra, 1)},
   {Mod(extra, 1)}, {Mod(base, 1)}}
MCCritical == {base}
MCDerived  == {tb}

\* Every set of ticks has a hash of its own.
MCRecordHash == [t \in 1 .. MaxTick |-> 2 ^ (t - 1)]
=============================================================================
