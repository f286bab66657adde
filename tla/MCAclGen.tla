------------------------------ MODULE MCAclGen ------------------------------
(* Up to three policy files and five platforms: TLC instances of AclGen.    *)
EXTENDS AclGen

\* Five of the platforms: juniper and cisco stand for those that share the
\* first parse, iptables has no suffix, srx has a parse of its own, demo is
\* copied after it.
MCGenerators == <<"juniper", "cisco", "iptables", "srx", "demo">>

MCText(fs) == [include |-> "resolved", filters |-> fs]

MCPolicies ==
  {MCText(<<<<"good", "good">>>>), MCText(<<<<"good", "shaded">>>>),
   MCText(<<<<"good">>, <<"good", "shaded">>>>),
   MCText(<<<<"good">>, <<"insane">>>>), MCText(<<<<"short">>>>),
   MCText(<<<<"good", "badport">>>>), MCText(<<<<"good">>, <<"garbage">>>>), MCText(<<<<"good">>, <<>>>>),
   MCText(<<<<"good", "shaded", "overrun">>>>), MCText(<<<<"good", "bareport">>, <<"good">>>>),
   [include |-> "missing", filters |-> <<<<"good">>>>]}

\* One filter or two; the headers of one file overlap in their targets.
MCHeaders(n) ==
  IF n = 1
  THEN {<<{"juniper", "cisco", "demo"}>>, <<{"srx", "iptables"}>>}
  ELSE {<<{"juniper", "srx"}, {"cisco", "srx", "demo"}>>, <<{"demo", "iptables"}, {}>>}

\* Files of the same name in different directories, and one whose name without
\* its extension looks like the output of another.
MCDirs == <<<<"policies">>, <<"policies", "sub">>, <<"policies">>>>
MCNames == <<<<"a", "acl", "pol">>, <<"a", "pol">>, <<"a", "pol">>>>

MCFiles(i) ==
  UNION {[dir : {MCDirs[i]}, name : {MCNames[i]}, policy : {p}, headers : MCHeaders(Len(p.filters))]
         : p \in MCPolicies}

MCDirectories ==
  {<<f1, f2>> : f1 \in MCFiles(1), f2 \in MCFiles(2)}
    \cup {<<f1, f2, f3>> : f1 \in {f \in MCFiles(1) : Len(f.headers) = 2},
                           f2 \in {f \in MCFiles(2) : "srx" \in f.headers[1]},
                           f3 \in MCFiles(3)}
=============================================================================
