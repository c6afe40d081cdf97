--------------------------- MODULE MCDumpPipeline ---------------------------
(***************************************************************************)
(* The hive list and a printkey task for each hive it lists, with the      *)
(* tables it gives them: a single hive with a table of its own, or two     *)
(* hives of one name and a third called like the second with its number.   *)
(***************************************************************************)
EXTENDS DumpPipeline, UniqueNames

Word(w, tail) == [word |-> w, upper |-> FALSE, number |-> 0, tail |-> tail]

ThreeHives == <<Word("ntuser", <<>>), Word("ntuser", <<>>), Word("ntuser", <<2>>)>>
PrintKey == <<"printkey1", "printkey2", "printkey3">>

PrintKeysOf(hives) == {PrintKey[i] : i \in DOMAIN hives}
NamesOf(hives) == PrintKeysOf(hives) \cup {"hivelist", "boot", "diagnostics", "runs", "image"}
TablesOf(hives) ==
  [n \in NamesOf(hives) |->
     IF n \in PrintKeysOf(hives)
     THEN HiveTables(hives)[CHOOSE i \in DOMAIN hives : PrintKey[i] = n]
     ELSE Word(n, <<>>)]

OnePrintKeys == {"printkey1"}
OnePlugins == OnePrintKeys \cup {"hivelist"}
OneNames == NamesOf(<<"system">>)
OneTables == [n \in OneNames |-> n]

ThreePrintKeys == PrintKeysOf(ThreeHives)
ThreePlugins == ThreePrintKeys \cup {"hivelist"}
ThreeNames == NamesOf(ThreeHives)
ThreeTables == TablesOf(ThreeHives)
=============================================================================
