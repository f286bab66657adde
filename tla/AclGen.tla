------------------------------- MODULE AclGen -------------------------------
(***************************************************************************)
(* aclgen.py on top of lib/policy.py: the program that renders every       *)
(* policy file of a directory for every platform its headers target.       *)
(*                                                                         *)
(* Each file is parsed once (PolicyCompile), the policy is copied for each *)
(* targeted platform, SRX gets a policy of its own parsed with             *)
(* optimize=False, and the generators then run one after the other, each   *)
(* writing one output file.  Nothing is caught: the first exception ends   *)
(* the process, and the files written before it stay.                      *)
(*                                                                         *)
(* A generator is modelled by what aclgen can see of it: it renders the    *)
(* policy object it was given, which it may modify while doing so, or it   *)
(* raises.  A file is known by the components of its directory and by the   *)
(* parts of its name between the dots.                                     *)
(***************************************************************************)
EXTENDS PolicyCompile

CONSTANTS
  Directories, \* policy directories: their files, in the order they are met
  Generators,  \* the platforms, in the order render_filters renders them
  NONE         \* no policy object (False in the code)

Platforms == {Generators[i] : i \in DOMAIN Generators}

\* _SUFFIX of each generator: iptables writes files without one.
Suffix ==
  [juniper |-> <<"jcl">>, cisco |-> <<"acl">>, ciscoasa |-> <<"asa">>,
   iptables |-> <<>>, ipset |-> <<"ips">>, packetfilter |-> <<"pf">>,
   speedway |-> <<"ipt">>, srx |-> <<"srx">>, demo |-> <<"demo">>]

\* Every file lies in or below the base directory, the first component of dir;
\* it is listed once, and only when its name ends in .pol; each platform has one
\* turn.
ASSUME AclGenAssumption ==
  /\ Directories \subseteq Seq([dir : Seq(STRING), name : Seq(STRING),
                                policy : Policies, headers : Seq(SUBSET Platforms)])
  /\ Platforms \subseteq DOMAIN Suffix
  /\ \A d \in Directories : \A i, j \in DOMAIN d :
       /\ Len(d[i].headers) = Len(d[i].policy.filters)
       /\ Len(d[i].dir) > 0 /\ Len(d[i].name) > 1
       /\ Head(d[i].dir) = Head(d[j].dir)
       /\ Last(d[i].name) = "pol"
       /\ d[i].dir = d[j].dir /\ d[i].name = d[j].name => i = j
  /\ Generators \in Seq(Platforms)
  /\ \A i, j \in DOMAIN Generators : Generators[i] = Generators[j] => i = j
  /\ NONE \notin Nat \X Nat \X Platforms

VARIABLES
  sources,   \* the files of the policy directory aclgen was given
  shadeOpt,  \* --shade_check
  gpc,       \* where aclgen is
  si,        \* the source being rendered
  hi,        \* the header being looked at
  gi,        \* the generator whose turn it is
  obj,       \* the policy object each generator will render
  written    \* the output files, in the order they were written

args == <<sources, shadeOpt>>
gvars == <<args, gpc, si, hi, gi, obj, written>>
vars == <<pvars, gvars>>

NoObjects == [p \in Platforms |-> NONE]

GInit ==
  /\ PInit
  /\ sources \in Directories
  /\ shadeOpt \in BOOLEAN
  /\ gpc = "next"
  /\ si = 0
  /\ hi = 1
  /\ gi = 1
  /\ obj = NoObjects
  /\ written = <<>>

Source == sources[si]

\* copy.deepcopy(pol): a new object, told apart by where it was made.
Copy(p) == <<si, hi, p>>

\* filter_name: the first component of the source's path is replaced by the
\* output directory (left out here), the last part of its name by the suffix.
FilterName(source, platform) ==
  <<Tail(source.dir), Front(source.name) \o Suffix[platform]>>

\* Mutant of StartFile: the option is not passed on.
StartFileUnchecked ==
  /\ gpc = "next"
  /\ si < Len(sources)
  /\ si' = si + 1
  /\ ParsePolicy(sources[si + 1].policy, TRUE, FALSE)
  /\ gpc' = "parsing"
  /\ obj' = NoObjects
  /\ hi' = 1
  /\ gi' = 1
  /\ UNCHANGED <<args, written>>

\* load_and_render takes the next file and render_filters parses it.
StartFile ==
  /\ gpc = "next"
  /\ si < Len(sources)
  /\ si' = si + 1
  /\ ParsePolicy(sources[si + 1].policy, TRUE, shadeOpt)
  /\ gpc' = "parsing"
  /\ obj' = NoObjects
  /\ hi' = 1
  /\ gi' = 1
  /\ UNCHANGED <<args, written>>

Parsing ==
  /\ gpc \in {"parsing", "reparsing"}
  /\ Compile
  /\ UNCHANGED gvars

\* pol.headers is only there when a policy was returned: an exception, and the
\* AttributeError of None.headers or False.headers, end the process.
Parsed ==
  /\ gpc = "parsing"
  /\ pc = "idle"
  /\ gpc' = IF result = "policy" THEN "headers" ELSE "crashed"
  /\ UNCHANGED <<pvars, args, si, hi, gi, obj, written>>

\* One turn of the loop over pol.headers: a deep copy for each platform the
\* header targets; SRX makes the file be parsed again, un-optimized.
CopyForHeader ==
  LET targets == Source.headers[hi] \ {"srx"}
  IN
  /\ gpc = "headers"
  /\ hi <= Len(Source.headers)
  /\ obj' = [p \in Platforms |-> IF p \in targets THEN Copy(p) ELSE obj[p]]
  /\ \/ /\ "srx" \in Source.headers[hi]
        /\ ParsePolicy(Source.policy, FALSE, FALSE)
        /\ gpc' = "reparsing"
        /\ UNCHANGED hi
     \/ /\ "srx" \notin Source.headers[hi]
        /\ hi' = hi + 1
        /\ UNCHANGED <<pvars, gpc>>
  /\ UNCHANGED <<args, si, gi, written>>

\* The second parse is back: an exception ends the process, else what it
\* returned is copied.
Reparsed ==
  /\ gpc = "reparsing"
  /\ pc = "idle"
  /\ IF result \in {"raised", "ShadingError"}
     THEN gpc' = "crashed" /\ UNCHANGED <<hi, obj>>
     ELSE /\ gpc' = "headers"
          /\ hi' = hi + 1
          /\ obj' = [obj EXCEPT !["srx"] = IF result = "policy" THEN Copy("srx")
                                          ELSE NONE]
  /\ UNCHANGED <<pvars, args, si, gi, written>>

HeadersDone ==
  /\ gpc = "headers"
  /\ hi > Len(Source.headers)
  /\ gpc' = "render"
  /\ UNCHANGED <<pvars, args, si, hi, gi, obj, written>>

\* if jcl: ..., if acl: ...: a generator that has a policy renders it, its
\* output is written.
Render ==
  LET p == Generators[gi]
  IN
  /\ gpc = "render"
  /\ gi <= Len(Generators)
  /\ obj[p] # NONE
  /\ written' = Append(written,
                  [file |-> FilterName(Source, p), source |-> si, platform |-> p])
  /\ gi' = gi + 1
  /\ UNCHANGED <<pvars, args, gpc, si, hi, obj>>

\* Mutant of RenderFails: the exception is caught and the platform left out.
RenderFailsCaught ==
  /\ gpc = "render"
  /\ gi <= Len(Generators)
  /\ obj[Generators[gi]] # NONE
  /\ gi' = gi + 1
  /\ UNCHANGED <<pvars, args, gpc, si, hi, obj, written>>

\* The generator, or the writing of its output, raises.
RenderFails ==
  /\ gpc = "render"
  /\ gi <= Len(Generators)
  /\ obj[Generators[gi]] # NONE
  /\ gpc' = "crashed"
  /\ UNCHANGED <<pvars, args, si, hi, gi, obj, written>>

Skip ==
  /\ gpc = "render"
  /\ gi <= Len(Generators)
  /\ obj[Generators[gi]] = NONE
  /\ gi' = gi + 1
  /\ UNCHANGED <<pvars, args, gpc, si, hi, obj, written>>

\* render_filters returns to load_and_render.
FileDone ==
  /\ gpc = "render"
  /\ gi > Len(Generators)
  /\ gpc' = IF si = Len(sources) THEN "done" ELSE "next"
  /\ UNCHANGED <<pvars, args, si, hi, gi, obj, written>>

\* The program has ended.
Ended ==
  /\ gpc \in {"done", "crashed"}
  /\ UNCHANGED vars

GStep ==
  \/ StartFile
  \/ Parsing
  \/ Parsed
  \/ CopyForHeader
  \/ Reparsed
  \/ HeadersDone
  \/ Render
  \/ RenderFails
  \/ Skip
  \/ FileDone

GNext == GStep \/ Ended

GSpec == GInit /\ [][GNext]_vars

-----------------------------------------------------------------------------
(* Properties *)

\* The platforms the headers of source s target.
TargetsOf(s) == UNION {sources[s].headers[h] : h \in DOMAIN sources[s].headers}

\* The platforms source s has been written for.
WrittenFor(s) ==
  {written[i].platform : i \in {j \in DOMAIN written : written[j].source = s}}

\* When the run ends or fails, every file before the one it is at has been
\* written once for each platform its headers target, and no later one has been
\* touched.  No output has taken the place of another, unless one of the two, of
\* different files, is for a platform without a suffix.
EarlierFilesComplete ==
  \A s \in DOMAIN sources :
    /\ s < si \/ (s = si /\ gpc \in {"next", "done"}) => WrittenFor(s) = TargetsOf(s)
    /\ s > si => WrittenFor(s) = {}
    /\ \A i, j \in DOMAIN written : written[i].file = written[j].file =>
         \/ i = j
         \/ /\ written[i].source # written[j].source
            /\ \E k \in {i, j} : Suffix[written[k].platform] = <<>>

\* With --shade_check no output comes from a file whose first filter has a
\* shaded term, whichever files were rendered before it.
ShadedFileNotRendered ==
  shadeOpt =>
    \A i \in DOMAIN written :
      ~Contains(sources[written[i].source].policy.filters[1], "shaded")

=============================================================================
