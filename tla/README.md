# Capirca in TLA+

Specifications of Capirca, checked with TLC and, where it matters most, proved
with TLAPS. Capirca (Python 2) has two halves that share no state:

* an **ACL compiler** (`src/lib`, `src/aclgen.py`, `src/aclcheck_cmdline.py`,
  `src/definate.py`): it reads definitions of networks and services and policies
  written in terms of them, and renders each policy for routers and firewalls;
* a **configuration pusher** (`src/tools/ldpush`): it sends the results to the
  devices, one thread for each.

The compiler is sequential. What is hard in it is state that outlives its use:
module globals that carry options, objects shared or edited in place, and
algorithms on ranges whose branches must cover every case. The pusher is
concurrent and distributed: threads share one SSH configuration, sessions die at
any moment, commands are retried, and a router goes on with its work after its
client has given up.

## Inventory

| Component | State | Operations | Interacts with | What is hard | What makes it correct |
|---|---|---|---|---|---|
| Policy compilation, `lib/policy.py` | globals `_OPTIMIZE`, `_SHADE_CHECK`, `DEFINITIONS`; `Policy.filters` | `ParsePolicy`, `AddFilter`, `_TranslateTerms`, `_DetectShading` | naming, addresses, ports; called by aclgen, aclcheck | an option lives in a global that is put back half way, or not at all when a call fails | a returned policy has been through what its options ask for, and nothing another call asked for |
| Port lists, `lib/policy.py`, `lib/aclgenerator.py` | lists of pairs | `TranslatePorts`, `CollapsePortList`, `FixHighPorts`, `CheckPortIsContained` | terms, shading, generators | boundary arithmetic, recursion until nothing changes | no port is lost or added; comparison is sound |
| Addresses, `lib/nacaddr.py` | networks with comments, shared between lists | `CollapseAddrList`, `AddressListExclude`, `AddComment` | `third_party/ipaddr.py` | splitting and merging aligned blocks | the same addresses in the shortest list; exact exclusion; comments kept |
| aclgen, `aclgen.py` | the files of a directory, the outputs written | `load_and_render`, `render_filters`, `filter_name` | `ParsePolicy` (once or twice a file), every generator | an exception in the middle of a directory, a second parse of a file | what is written for the earlier files is whole and stays; what was refused is not rendered |
| Shading, `lib/policy.py` | terms | `Term.__contains__`, `FlattenAll` | `_DetectShading` | a test that edits what it tests | a term called shaded can never match |
| Naming, `lib/naming.py` | dictionaries of services and networks, the definition last read | `_Parse`, `_ParseLine`, `GetService`, `GetNet`, `Get*Parents` | policy, cgrep, definate | recursion through definitions in circles; a definition that goes on over lines and files | a lookup is exact, or says what is missing; undefined names are reported |
| ACL checking, `lib/aclcheck.py`, `lib/policyreader.py` | matches of a packet | `AclCheck`, `Match` | policy | uncertain matches | the first term that surely matches ends the search |
| Generators, `lib/aclgenerator.py`, `iptables.py`, `speedway.py`, `ipset.py`, `cisco.py`, `ciscoasa.py`, `juniper.py`, `junipersrx.py`, `packetfilter.py` | translated filters; settings, address books and applications that outlive a filter | the constructor (`_TranslatePolicy`), `__str__` | policy, addresses, ports | every platform divides a term into rules in its own way, and leaves out terms by its own rules | the rules catch what the term describes, the filter decides as the policy does |
| SSH options, `tools/ldpush/sshclient.py` | `_lock`, `_need_init`, `_ssh_options`, shared by all threads | `SshOptions.__init__`, `Lookup`, `Connect` | every device | double-checked locking, unlocked reads | nobody connects before the configuration is there |
| Device objects, `base_device.py`, `paramiko_device.py` | `_connected`, `_host_status`, `_ssh_client` | `Connect`, `Cmd`, `Disconnect` | sshclient, push | sessions lost at any moment, retries | a command runs once; calls end |
| Junos push, `junos.py` | files and candidate configuration on the router | `_SetConfig`, `_JunosLoad`, `_SendFileViaSftp` | device objects, the router | the transcript is all the client knows; clean-up that may fail | success means committed |
| IOS push, `ios.py`, `pexpect_connection.py`; `ScpPut` of `sshclient.py` | a shell session with output not read yet; files and configurations on the router | `_Cmd`, `_SetConfig`, `_DeleteFile`, `ScpPut` | device objects, the router | the router answers in its own time; patterns that match too early; retry after EOF | an answer is that of its command; success means applied and saved |
| push, `push.py` | a list of threads, a progress bar | `main`, `PushThread.run` | devices, SSH options | failures in threads; main that stops | every push that was started ends |
| Other vendors, `brocade.py`, `hp.py`, `aruba.py`, `cisconx.py`, `ciscoxr.py` | one session | `_Cmd`, `_SetConfig` | device objects | prompts | as for the two kinds of session above |
| definate, cgrep | none between files | read, print | naming | | |
| `third_party` (ply, ipaddr) | | | | vendored | |

`PROJECT.json` has the same list with the status of each part, and under
`hazards` the lines where each thing that is hard bites.

## Modules

| Module | Models | Instance | Proofs |
|---|---|---|---|
| `SshOptions` | the double-checked initialisation and its use | in `Push` | `PushProofs` |
| `Push` (extends `SshOptions`) | the threads of a push, and main | `MCPush` | `PushProofs` |
| `CommandChannel` | what `Cmd` promises, for any vendor: an abstract specification | implemented by the next two | |
| `ParamikoDevice` | a device object and its sessions | itself | `ParamikoDeviceProofs` |
| `IosDevice` | a device object on a shell, its uploads, and the router | `MCIosDevice` | `IosDeviceProofs` |
| `JunosSetConfig` | pushes to one Junos router | `MCJunosSetConfig` | `JunosSetConfigProofs` |
| `PolicyCompile` | `ParsePolicy`, called again and again | in `AclGen` | `AclGenProofs` |
| `AclGen` (extends `PolicyCompile`) | the driver over a directory | `MCAclGen` | `AclGenProofs` |
| `Naming` | definition files, and lookups in them | `MCNaming` | `NamingProofs` |
| `PortRanges` | port ranges and their comparison | used by the next and by `Terms` | `TermsProofs` |
| `PortList` | the port collapse | `MCPolicyTerms` | `TermsProofs` |
| `IpNetworks` | the networks of ipaddr | used by `NacAddr`, `Naming`, `Terms` | `TermsProofs` |
| `NacAddr` | address collapse and exclusion | `MCPolicyTerms` | `TermsProofs` |
| `Terms` (extends `IpNetworks`, `PortRanges`) | what a term matches, and `Term.__contains__` | `MCTerms` (terms and packets) | `TermsProofs` |
| `Shading` (extends `Terms`) | `_DetectShading`, flattening in place | `MCPolicyTerms` | `TermsProofs` |
| `AclCheck` (extends `Terms`) | the check of a packet | `MCPolicyTerms` | `TermsProofs` |
| `AclGenerator` (extends `Terms`) | what all generators share | used by the next six | `GeneratorsProofs` |
| `Iptables`, `Cisco`, `CiscoAsa`, `Juniper`, `JuniperSrx`, `PacketFilter` | the rules a term becomes on each platform, and when it is left out or refused | in `Generators` | `GeneratorsProofs` |
| `Generators` (extends those six) | a generator at work on a policy | `MCGenerators` | `GeneratorsProofs` |

A `Mutant of X` in a module is X with a plausible error in it. No action uses it:
it shows which property would notice.

### SshOptions

The three class variables are `lock`, `needInit`, `options`. One action is one
access to them, so that every interleaving of bytecode that matters is there:
`FirstCheck` (the unlocked test), `Acquire`, `Recheck`, `ReadConfig` or
`ReadFails` (`logging.fatal` only logs, it does not exit), `Release`, `Finally`
(the flag is cleared *after* the lock is given back), then `LookupTest` and
`LookupUse`, the two unlocked reads of `_ssh_options`, and `OpenSession`. The
contents of the file are a member of `Configs`; the file may change or vanish
between two reads.

### Push

`StartThread` is a turn of the loop of `main`: the thread is started and the bar
updated. `Connecting` runs the steps of `SshOptions` for a thread, and reads off
from them whether the session was opened; `NeedsSession` is an operation that goes
through `sshclient.Connect` once more (a reconnection, an upload), `Finish` the end
of the operation, with or without an exception. Nothing is caught in `push.py`:
what a thread raises ends that thread and nothing else, what `main` raises ends
`main`, and the threads it started go on.

### CommandChannel

The abstract specification has three variables: a `Cmd` is `busy`, its command
`ran` so often, the last one was `answered`. It promises that the device runs a
command `MaxRuns` times at most, that an answer is only given to a command that
was run, and that a call ends. `ParamikoDevice` implements it with one run.
`IosDevice` implements it with two, as it sends its command again when the session
ends, and only for a call that finds the router waiting and everything read
(`fresh`): after a timeout the session stays, and the output of the command that
was given up answers the next one.

### PolicyCompile and AclGen

The text of a policy is abstracted to what decides control: whether its includes
resolve, its filters, and of each term the step that fails on it (`good`,
`badport`, `insane`, `shaded`, `garbage`; a filter may be `short`: without terms
or header). A term may also make the comparison itself fail, as `Shading` shows
that it can: with an `IndexError`, which ParsePolicy turns into `False`
(`overrun`), or an `AttributeError`, which it lets through (`bareport`).
`Preprocess`, `ParseFilter`, `AddFilter`, `TranslateTerm`, `DetectShading` and
`Return` are the steps in the order the parser takes them: a filter is added
before the next one is parsed. `optimizeFlag` and `shadeFlag` are the globals;
`entry` remembers what they were when the call began, `cleaned` and `checked`
what the options reached.

`AclGen` adds the loop over files and over headers. `Parsing` and `Reparsed` run
the compiler's own steps; `Copy` is the `deepcopy` a platform gets; SRX has the
file parsed again with `optimize=False`; `Render` and `RenderFails` are a
generator, seen from outside. `Skip` is a platform no header targets. A failure
ends the process (`crashed`). A file is its directory and the parts of its name
between the dots, and `FilterName` puts the platform's suffix in the place of the
last part. The suffix of iptables is empty, so that its output for `a.acl.pol` is
the one of Cisco for `a.pol`: outputs are kept apart for all other platforms
only, and that is what `EarlierFilesComplete` says.

`PolicyIsProcessed` and `OptimizeIsPassedOn` say what the options of a call do,
and that those of a call that succeeded do nothing to a later one. They take no
side on how far an option reaches within a policy: that is `OptionsAreHonoured`,
which is violated.

### PortList and NacAddr

One action is one branch of a turn of the loop in the recursive collapse
(`FirstPort`, `Swallow`, `Overlap`, `Adjoin`, `SeparatePort`; `First`, `Subsume`,
`Merge`, `Separate`); `CollapseAgain` and `Recurse` begin another pass.
`PortList` follows the list into `FixHighPorts` (`AddHighPorts`), for the
`established` option, and collapses again. `PortIsContained` (in `PortRanges`) is
the comparison of two lists. `NacAddr` collapses both lists of
`AddressListExclude`, takes the excluded addresses out one by one (`RemoveNext`,
with ipaddr's `address_exclude`), and collapses the result. A text of a comment
is a sequence of pieces, one of which is the comma: `AddComment` appends a text
unless it is part of the one there (`PartOf`), whether as a comment of its own or
not. A network is an aligned block of numbers; `Supernet`, `In`, `Precedes` and
`AddressExclude` (in `IpNetworks`) are the operators of ipaddr the code relies
on. Python's sort is stable, and the networks of a list may be equal and carry
different comments: `SortAddrList` puts the places of a list in order (`Sooner`),
so that it is one list and not any list in order.

### Terms, Shading and AclCheck

A term is a record with the attributes that `Term.__contains__` compares.
`Matches` gives a term its meaning, the packets it is met by; it is how a filter
made of the term reads on a device, and not a function of the code. Everything
else is: `Contained` is `__contains__` part by part, with each comparison made in
the direction the code makes it in, which is not always the one that is meant
(`ComparedAsMeant`, and the list below). The order of a list nobody looks at is
left out (a set); address and port lists stay lists.

`Shading` is the double loop of `_DetectShading`, one pair of terms after the
other. The comparison has effects: `Refused` is decided by verbatim and protocols
alone, and `FlattenAll` happens once for each term, at its first comparison that
gets so far. It goes through the three lists of the term (`FlattenPlain`,
`FlattenBegins`, `SkipSide`, `FlattenSide`) and edits them where they are
(`terms`), so that the term will be rendered from them; `flat` holds what was
found. The recursion of `_FlattenAddresses` is a stack, `calls`, with the list, the
excludes and the two loop counters of each call: `NextAddress`, `NotExcluded` and
`EndOfExcludes` are the turns of its loops, `Split` pops an address and calls
itself for what is left of it, `ReturnToCall` extends the caller's list,
`ReturnToTerm` the term's. `Compare` is the comparison of two flattened terms.
`SplitFails` and `PortFails` are the two exceptions that can come out of a
comparison. `given` is the filter as it was before the check.

`AclCheck` is the loop over filters and terms of `AclCheck.__init__`, one action
for each way the body is left: passed over (`NoHit`), possibly or not finally met
(`HitAndGoOn`), met for certain (`ExactHit`, which goes to the next filter).
`ANY` is the string `any`.

### ParamikoDevice

What the object believes (`connected`, `hostStatus`, `client`) and what exists
(`live`, the sessions still open at the device) are separate, and `LoseSession`
changes only the second. `timed` is whether the channel has been given the timeout:
the first one of a `Cmd` is, the one that is opened after a session was dropped is
not. `Connect`, `Cmd` and `Disconnect` begin a call; the other
actions are the steps of `ParamikoDevice._Cmd` and `BaseDevice.Connect`: opening a
channel, dropping a session whose channel ids run low, running the command,
reading its output, and the one retry.

Two facts of the code shape the model. `connected = property(_GetConnected, ...)`
in `BaseDevice` binds the accessor of the base class, so that the override in
`ParamikoDevice` is never called. And `_dampen_end_time` is read in
`_HostDownPrepareConnect` and assigned nowhere, so that a `Connect` after a failed
one raises `AttributeError` (`ConnectHostDown`).

### JunosSetConfig

Client and router are separate processes. The client (`LocalWrite`, `Upload`,
`Checksum`, `Batch`, `Judge`, `Fetch`, `DeleteTmp`, `DeletePatch`,
`LocalDeletes`) follows `_SetConfig`; the router takes the commands of the one
line it was sent one by one (`Edit`, `Load`, `CommitCheck`, `Commit`,
`RollbackOne`, `SavePatch`, `Exit`), may be cut off (`Hangup`), and goes on when
the client stops waiting (`GiveUp`). A transcript is the sequence of the kinds of
its lines, and `LoadError` decides on it as `_RaiseExceptionIfLoadError` does,
with the lines it takes for context of a bracketed line left out. An exception of
the finally clause takes the place of that of the load, as in Python. What the
router prints is taken from the transcripts in `junos_test.py`: these definitions
are marked external.

### IosDevice

The object writes lines to a shell and waits for patterns, as pexpect does: what
comes before a match is dropped, what comes after it stays for the next wait. A
session is its lines not worked on yet, its output not read yet, and what it waits
for (`mode`). The output is a sequence of marks, the patterns of `ios.py` and the
call whose line they answer. A checksum is that of a file, and so of the data it was
put there with (`DataOf`): the object takes the first line that looks like a
checksum, of whatever file it is, and compares the digest with that of its own data
(`SameDigest`). One that comes late therefore answers for a later file with the
same data. The actions of the object are the waits of
`_DisablePager`, `_Cmd`, `ScpPut`, `_SetConfig` and `_DeleteFile`, each with the
ways it can end: a match, a TIMEOUT (no match and the session open) or an EOF. A
line sent before its question was seen is taken by the router for whatever it asks
then. The router (marked external) works in its own time, may refuse each line as
`ios.py` expects it to, and loses sessions with the end of their output.

### Naming

A line is a definition or values that belong to the one before it; `unit` is the
definition that values go to, which outlives its file and its type. Files are read
in any order (`OpenFile`, as `glob` gives them), services before networks, and
`CheckUnseen` comes after each type. `ParseList` is `ParseServiceList` and
`ParseNetworkList`, called later. A lookup is a stack of frames: a turn of the
loop of a call is one step (`ServiceToken`, `NetToken` and `Parent` call,
`ServiceReturn`, `NetReturn` and `ParentsReturn` return), and a stack of
`MaxDepth` is Python's recursion limit. `NoneOverlooked` says when a lookup of
parents sees all there is: no line has a comment, and neither the values listed
nor the one asked for begin with a letter (`LetterFirst`).

### AclGenerator and the platforms

A rule of a platform is written as the term it stands for, so that `Matches` gives
its meaning as well; the rules under `except` are the jumps that leave the block
of a term. Each platform's module has its keywords, its options (`...Refused`,
`...State`), the terms it leaves out (`...Skips`, `...Renders`), those it raises
for (`...Refuses`), and the rules it writes (`...Rules`). `Generators` is the
control they share: `CheckKeywords`, `StartFilter`, `TranslateTerm` (names, high
ports, address books, the table that all terms share), then `RenderTerm`.
`carried` is what outlives a filter. The predicates `...AsMeant` name the terms a
platform does not write as they are meant, each for a reason listed below;
`RenderedAsMeant` is about all others. `DecidedAsWritten` compares two lists of
decisions, each at its place: those of the blocks that catch a packet, in the order
of the output, and those of the terms that it meets, in the order of the policy
(`Decision`). What a block does with a packet is `ActionWritten`: a next of ipset
returns from the filter, as ipset writes no chain for a term, and a routing
instance takes the place of the action on Juniper. `DecidedAsWritten` is for
filters whose terms keep their actions (`ActionsKept`).
`SettingsHold` is what can be said of the settings of all filters, and
`SettingsAreOfTheFilter` what is said of them in `doc/policy_format.txt`, which is
violated. The syntax of the output, comments, logging and counters are left out.

What a policy and a packet may be is in `GeneratorsAssumption`: a filter has a
target and entries of the parser's form (`FilterInForm`, `EntryInForm`), a term its
fields, with lists of networks and ports, and has passed `SanityCheck`
(`TermInForm`, `Sane`); a policy has a filter, as `Policy.__init__` is given one; a
packet has addresses of one version and that version's ICMP (`PacketInForm`).

## Runs

| Run | Question | Bounds, and why they are enough |
|---|---|---|
| `push` | does every thread of a push find the configuration, in every interleaving, and come to its end? when does main give up? | three targets (one thread inside the lock, one waiting, one late), two connects each (a thread that meets an already settled state), two configurations (a reload that changes something), a bar that is full at two (one target too many). The theorems take over for more |
| `paramiko_device` | does `Cmd` keep the promise of the channel, whatever is lost, and does each call end after a bounded effort, but for reads without a timeout? | four calls: connect, lose, fail, and what comes after |
| `ios_device` | is an answer that of its command, is a successful `SetConfig` applied and saved, its file deleted, and what reaches the configurations? does `Cmd` keep its promise? | two calls after a `Connect`, of any kind, with the same data (the worst case for a late checksum): the second one meets what the first has left on the session and on the router. Two sessions and two losses: the first session, and the one that replaces it |
| `ios_refusal_reported` | is every refusal of the router reported? It is not | the same |
| `junos_set_config` | two pushes to a router, each a commit with a patch, a canary or a file | two is what it takes to meet someone else's lock, candidate or commit |
| `aclgen` | is what the options ask for done, and nothing that another call asked for? what is written when something fails in the middle? | two and three files, of up to two filters of up to two terms, with every outcome of every step of the parser; names that collide; headers of one and two targets, five platforms: two that share a parse, iptables without a suffix, SRX with its own parse, and one after it. The globals are two bits: two calls show every value a call can meet |
| `aclgen_options` | do the options hold for the whole policy? They do not | the same |
| `policy_terms` | see below | see below |
| `naming` | are definitions that use one another read and expanded exactly, whatever the order of the files? | three names that use each other in chains, diamonds and circles, and one that nothing defines; files that go on with the definition of another; two lists read later. Six nested calls are more than three names need without a circle |
| `naming_recursion` | does the lookup of a service always come to an end? It does not | the same |
| `generators` | do the rules of each platform catch what the term describes, does the list decide as the policy does, and does a setting hold for its filter? | each of some two hundred terms for every platform and type of list: a decision about a term looks at no other one. Two terms or two filters for what outlives a term or a filter. Three bits of addresses, seven ports and three in a match, and one pair of addresses before sides are inverted, so that each limit is met |
| `generators_headers` | are nostate and the default action those of one filter, in iptables? They are not | two filters with every pair of headers |

`policy_terms` has the four instances that need neither each other nor much room,
side by side (`work` says which one a behaviour is about, the other three stay
where they begin):

* `PortList`: every list of up to three ranges over five ports, inverted ones among
  them. A branch compares one range with the last one kept, so that three ranges
  meet every pair of branches in a row.
* `NacAddr`: lists of three networks less lists of two, in three bits of IPv4 and one
  of IPv6. Three bits give networks inside, beside and around each other, and
  merges that cascade; the second version shows they are kept apart. Comments that
  are part of one another, and an empty one.
* `Shading`: every filter of one or two terms of about a hundred (protocols, sides
  and ports in combination; every other attribute; excludes that split, swallow or
  miss), every one of three terms of six. Two terms are what is compared; the third
  one meets a term that an earlier comparison has edited. Four addresses of version
  4 and one of version 6: blocks beside, inside and around each other.
* `AclCheck`: filters of up to two terms of thirteen and of three terms of six,
  policies of two filters; each part of a query known or `any`. The packets are all
  that some query or term tells apart.

Deadlock is checked where the program must come to its end by itself (`AclGen`,
the four of `policy_terms`, `Generators`, `Naming`: their last state has a
step of its own). The other modules stop where their bounded client does, so it
is not.

### Fairness

* `Push`: weak fairness of each thread's steps, and of main's. CPython runs every
  thread that can run, and the lock, once free, stays free until somebody takes
  it. A thread at `Acquire` might be overtaken, but only as often as the others
  have connects left; so weak fairness is enough. An operation on a device ends
  (`Finish` is among the steps): that is what `CallEnds` of `ParamikoDevice`, with
  its exception, and the refinement of `IosDevice` say of the devices.
* `ParamikoDevice`: weak fairness of `Work`, the steps inside a call, but for a
  read on a channel that was not given the timeout (`Untimed`). The channel of
  line 103 has one, so that its reads end. Opening a session or a channel is a
  request to the SSH server, which answers or is found to be gone; that it does is
  an assumption about paramiko. The channel of line 115 has no timeout: a device
  that says nothing keeps `Cmd` there for as long as it likes, and `CallEnds`
  makes an exception of it. Neither `LoseSession` nor the client's next call is
  fair.
* `IosDevice`: weak fairness of `Step`, the steps inside a call: each wait of
  pexpect has a timeout. The router is not fair, it may never answer.

The others have no liveness property: nothing in them waits but the client of
`JunosSetConfig`, which stops waiting by itself (`GiveUp`).
That the port collapse ends is stated as a bound on its passes
(`TwoPassesEnough`), which is stronger; that a lookup of `Naming` ends, where the
definitions it needs do not go in a circle, is in `LookupIsExact`.

## What is proved

The theorems hold for every value of the constants, under the `ASSUME` of each
module, which TLC evaluates in every run.

**SshOptions**: `TypeCorrect`, `LoadersExcludeEachOther`, `LookupIsAfterInit`,
`UseNeverFindsNone`, `SessionsAreTranslated`, for any number of threads.
`LookupAfterInit` (what `LookupIsAfterInit` proves) is not inductive: a thread
comes to `Lookup` either because it read the file or because it saw the flag
cleared. The inductive invariant adds that a cleared flag means stored options,
that a thread beyond its read has them, and that only the owner of the lock is
inside the `with`. The flag is cleared after the lock is released, and the second
of these is why that does no harm.

**Push**: `PushUsesOptions` (every push, of any number of targets, is a behaviour
of `SshOptions`: a step of the driver is one of its steps or leaves it alone),
and with it `PushedToTranslated`, a theorem of `SshOptions` carried over.
`BarStopsMain`: main comes to every target exactly when the bar has room for them
all. Its invariant ties the place of `main` to the number of threads started; the
arithmetic is that the last turn of the loop is the one that decides, as the
counter grows by one and `targets * counter` is monotonic.

**PolicyCompile**: `CompileTypeCorrect`, `FlagsDoNotLeak` (a call that returns a
policy leaves both globals at their defaults, whatever failed before it) and
`OptimizeReach` (no term is left unsummarised but at the wish of its own call, or
of one before it that failed; the first term is treated as asked). The strengthening
(`PInv`) relates the parser's place, what has been recorded, and the globals: as
long as no term has been cleaned up, the global is what the call and its entry
make it; after that it is back. `ReturnedIsProcessed` is about what is returned:
every term of the policy has been cleaned up once, in the order of the file, its
first filter has been compared for shaded terms when the call asked for it, and no
filter that was compared has one (`FiltersDone`, `Compared`, `PolicyReturned` of
`PInv`).

**AclGen**: `RunsCompile`: a run over any files is a behaviour of `PolicyCompile`,
so that the theorems above hold of the calls it makes. `FilesAreComplete`: every
file before the one at hand has been written once for each platform its headers
target, and no output has replaced another, unless one of the two is for a platform
without a suffix. `ShadedIsNotRendered`: with
`--shade_check` nothing is written for a file whose first filter has a shaded
term. The invariant (`GInv`) says what each stage of a file means: which platforms
hold a policy while its headers are gone through (`Stages`), what the generators
that are past have written (`Outputs`), and that a file that is rendered has been
accepted by the parser (`Compiled`). That outputs are kept apart rests on
`AclGenAssumption` (the files of a directory are distinct, share the first component
of their path, which `filter_name` drops, and end in `.pol`, as `load_policies`
takes no others; each platform has one generator) and on the suffixes, which are
one part of a name each, and different: two names that are equal end in the same
suffix, and so are of one platform and one file.

**PortList**: for every list of ranges of integers. `NoPassLosesPorts` and
`CollapsedListKeepsPorts`: what a pass has kept and what it has still to look at
are together the ports asked for. This is inductive only together with the order
of both lists by lower end, which is what allows a branch to look at
`ret_ports[-1]` alone. `CollapseSeparates` and `NoThirdPass`: a pass leaves a list
of ranges apart from each other, and such a list goes through a pass unchanged.
`ComparisonIsSound`: shading detection never takes a list for contained that is
not. `ComparisonFindsAll` is the converse for a list that has been collapsed,
whose ranges are apart from each other: of a range whose ports are all in the
list, the first port is in some range of it, and if that one ended before, the
port after its end would be in no other, as the ranges are in order.

**NacAddr**, for lists of any length and networks of any width: `ExcludeExact`
(what `AddressListExclude` returns covers the addresses of its first list that
are of none of the second), `EveryTextIsKept` (the comment of an address is part
of the text of the network it has become part of) and `CollapseIsShortest` (a
collapsed list has as few entries as cover its addresses, and is in order). The
assumption `PowersAssumption` of `IpNetworks` states of the powers of two what
the provers do not know, `2^(k+1) = 2 * 2^k` for the widths there are; TLC
evaluates it. From it come the facts about blocks: two of them are apart or
nested (`NestedOrApart`), the halves of a supernet are its two blocks of the next
size, and `address_exclude` leaves blocks that are apart and cover the rest
(`AddressExcludeIsExact`, by induction on the width, as `AllNumbers` applied to
the set of widths for which it holds). A sort is a function on places:
`InOrderSorts` counts, for each place, how many come before it, and shows that
this is a bijection, so that the list that comes out has the elements that went
in and is in order. The invariant (`AInv`, the theorem `AInvAlways`) is about one
pass. `Holding`: the list kept and the list left cover what was asked for, and
the comment of each address is part of the text of one that holds it, in one list
or the other: being part of is kept by every branch of `AddComment`, being listed
as a comment is not. `Arranged`: what is kept ascends without overlap, and what
is left is sorted and has no part before the last network kept; without it
`Subsume` could drop a network that the last one does not hold. `NoHalves`: until
something changes, no two halves of a network stand side by side. A pass that
changes nothing therefore leaves a list with no network to merge, and then a
largest network of the numbers covered can only be one entry: of two entries
inside it, the first ends where the next begins, and taking the smallest two of
such a run makes them halves. `Stages` follows the difference of the arguments
through the three collapses and the exclusion.

**ParamikoDevice**: `DeviceTypeCorrect`, `CommandNeverRunsTwice`,
`ResponseIsOfARun`, `ConnectedObjectHasClient`, `SessionsAreBounded` and the
refinement `DeviceImplementsChannel`, for any number of calls and whatever
sessions are lost. Each step of the device maps to one of `CommandChannel` with
one run, or to a stutter; the invariant is needed where `Exec` maps to `Run` (the
command has not been run) and `Return` to `Answer` (it has). `Progress` ties the
place in the call to what has run: every way back to the start of the command
leaves from a place before `Exec`. `Effort` weighs the sessions tried against the
retry that is left and the flag that says one is open; without the flag the bound
would not be inductive, as each reconnect could be followed by another.

**Terms**: `ContainedMatchesLess`, for address and port lists of any length: if
`__contains__` finds one term in another, every packet the first matches the
second matches, where the protocols, options and ranges of the two are compared
as is meant (`ComparedAsMeant`). It is stated of the flattened lists, with what
must be true of them (`FlattenedFor`: they hold every address the term matches)
as an assumption. Blocks inside each other carry over to their numbers
(`InnerNumbers`), from there to lists (`ContainedAddresses`, `ContainedPorts`),
and the theorem goes through the conjuncts of `Matches` one by one. The one that
needs three cases is `address`, which either side may meet.

**Shading**, for filters of any length, lists of any length and any sets of
packets: `ShadedUnreachable` (the policy is not refused for a term that some packet
of the instance reaches, where `ComparedAsMeant` holds), `FlattenIsReduced`
(flattening takes the excluded addresses out of a list and no others, and the list
that is compared is the one that will be rendered) and `ShadedFound` (a check that
passes has compared every two terms, and no simple term is left that an earlier
simple term holds whose protocols it all has: `SimplePair`, for the other way round
the code overlooks it). The invariant (`SInv`, the theorem `SInvAlways`) says of each
term which of its lists flattening has done with (`Over`, `Reduced`), in whatever
order the comparisons asked for it, and of the calls on the stack what they have
lost and gained (`CallsInv`): for one exclude there are at most two calls, the
inner one with the parts of the entry that was popped, and both lists together hold
the addresses of the list but for the excluded ones. That the entry which moves
into the gap is skipped does no harm exactly when one entry at most holds the
exclude (`OneHolder`), and that is what `ExcludesFit` asks. `ShadedUnreachable`
rests on `ContainedMatchesLess` with `FlattenedFor` now proved of the lists
flattening leaves. `ShadedFound` goes the other way, from packets to lists: a term
that matches less is contained, if its lists are collapsed to one entry each
(`Simple`), since a block or a range that is covered by one entry is inside it. The
assumption `ShadingAssumption` asks that the terms list only addresses, ports and
protocols that some packet has, and that packets with each combination of them
exist (`PartsCombine`); otherwise a term could be unreachable for want of packets.

**AclCheck**: `ShadedNeverExact`, for any policies and queries. Two parts of the
program decide in different ways what is unreachable; the theorem says they do not
contradict each other. The property speaks of exact matches only and is not
inductive: the invariant (`IInv`) says that every term before the one at hand, and
before each exact match, has been `Passed`: not hit, or hit without ending the
search. `ContainedIsHit` then shows that a query that hits a term hits each term
that contains it, so that one that was passed cannot contain an exact match.
`DecisionsReported`: of a packet whose addresses, ports and protocol are known,
what each filter decides is in the report. Its invariant (`RInv`) says of each
term before the one at hand that the report names it if the query hits it, and
of each filter before the one at hand that its decision is there. It is stated for
the terms that `LooksAtAllOf` admits, and under `AclCheckAssumption`: the terms
pass `SanityCheck` and are well-formed, and what is asked about is a block or
`any`.

**JunosSetConfig**: `PushesAreCommitted`, `PatchesAreOwn` and `PushesTidyUp`, the
three properties of the run, for any number of pushes that overlap and any
arguments. None is inductive: all the client has at the end is a transcript, and
the invariant (`IInv`) says what a transcript is worth at every moment. `Line`: what
the router has still to run is an ordered rest of the command line (`Rank`; that
`_JunosLoad` builds such a line is `BatchIsLine`, over all its arguments), and the
upload it will load is intact or gone. `Edits`: the session that holds the
configuration has loaded nothing but its own whole upload, unless its transcript
says in the second line that the load was refused (`Bad`), and a commit it has
made is the last one. `Tells`: a transcript with a commit in it and no refused load
is that of a commit of the whole upload, and a patch beside it was made of that
commit. `Accepted` shows that `_RaiseExceptionIfLoadError` lets no `Bad` transcript
through, wherever lines are taken for diffs, and none without a commit. `Waits` and
`Tidies` carry the verdict through the finally clause. A step of one push keeps
what belongs to the others (`Frame`): it cannot commit, nor touch the candidate,
while another holds the configuration. The proof rests on `JunosAssumption` alone.

**IosDevice**, for any number of calls, sessions and losses, with any data:
`OnlyWholeFilesReach` (a file that was cut short reaches a configuration only if
an earlier call had the same data, and never by a call that found the router
waiting), `ResponsesAreOwn` (a `Cmd` that began on a quiet session returns the
output of its own command), `CommandIsKept` (such a `Cmd` implements
`CommandChannel` with two runs), `SuccessCleansUp` (a `SetConfig` that returns
without a warning has deleted its file from the router, if it found the router
waiting or was the first with its data) and `SuccessApplies` (from a quiet
session and without a refusal, it has put the whole file where it was told, and
saved it). The inductive invariant (`IInv`, the theorem `Invariant`) has to say
what is on its way between object and router at each place a call can be at,
since a match of the object is worth what the output before it is worth:

* `Types` holds the whole argument of `OnlyWholeFilesReach`: which lines may be
  typed or remembered and which marks printed, given whose upload is over
  (`Uploaded`) and whose file will not change any more (`Settled`), or belongs to a
  call that may have taken an earlier checksum of the same data for its own
  (`Doubtful`: another call had its data, and it did not find the router waiting).
  A line that copies a file names a settled one, a checksum that is printed is that
  of a settled one, and the configurations hold parts of doubtful files only.
* `ReadsItsOwn`: what a call that found the router waiting reads of its verify is of
  its own file, so that the first checksum in it is its own. `Unmistaken` is the
  premise under which a call cannot have been misled.
* `Control` says which places belong to which operation and what session they
  have; `ClosedIsIdle` and `OthersIdle` that no other session is at work.
* One part for each conversation says what the session in hand may still say:
  `BeginsWell` (the pager), `AnswersOnly` (a command: a prefix of the echo, the
  answer and the prompt), `VerifiesLast` (of this call's own file, nothing comes
  after its checksum), `CopiesLater` (no complaint before there is something to
  copy), `Applies` (the copy, then `wr mem`), `DeletesLast` (the file is gone, or
  an error is printed before the prompt). `RunsBounded` counts the runs of a
  command.

`AnswersOnly` and `Applies` are for calls that found the router waiting and that
nothing was refused in; the other parts hold of every call, also one that meets
the output of an earlier one. `CommandIsKept` is the safety part of the property
`ImplementsChannel`, whose fairness stays with TLC.

**Naming**, for any definition files read in any order, lists read later, and any
questions: `FilesAreWhole` (the dictionaries hold what the files say, whatever
the order they were read in), `UndefinedReported` (no object is made while a name
that is listed without a comment has no definition), `LookupsAreExact` (a lookup
returns all that the definitions give for the name and nothing else, or reports
an undefined name that can be reached; it comes to an end where none of the
definitions it needs are in a circle, which is all that can be proved of an end:
see `ServicesEnd`) and `ParentsAreComplete` (the parents of a value are ancestors
of it, and all of them where none is overlooked). The invariant (`NInv`, the
theorem `NamingInvariant`) has two halves. While files are read, each name listed
so far is defined or in `unseen` (`Accounted`), which needs `Reading`: the
definition that values go to is of the type that is read, although it outlives
its file. During a lookup, the frames are a path through the graph of names
(`Path`), and each frame is past items that are dealt with (`ServiceFrame`,
`NetFrame`, `ParentFrame`): all that can be reached from them is defined, on no
circle (`Whole`), and found. A frame that is past its last item has therefore
found all of its own. For the recursion limit, a path of more frames than there
are names repeats one, which is a circle: `NamingAssumption` asks for `MaxDepth >
Cardinality(Names)`, as Python's limit is far beyond the names any file defines
in a chain. `FilesAreWhole` is about files that each begin with a definition
(`AllStart`): then the values of a line belong to the definition above it in the
same file. Its invariant, `Gathered`, says that the dictionary of a type holds
the definitions of the files read, each with the values its file gives it, and
while a file is open that some prefix of it has been read (`Halfway`). What a
file says of a name are the items of the lines from its definition to the next
(`Written`), one list: that the list grows with each line is a fact about the
recursive function behind `FlattenSeq`, whose existence is shown first. The
assumption also keeps names and values apart, and asks that lists and questions
be of lines and names there are.

**Generators**, for policies with any number of filters and terms, lists of any
length, networks of any width and all eight platforms: `RenderedIsMeant` (the
rules of a block catch the packets its term describes and no other ones),
`DecisionsAreKept` (of a packet, a rendered filter decides as the policy does, if
its terms are written with the actions they have), `SettingsAreHeld` (what a
header asks for holds for its filter) and `OutputIsWellFormed` (names are used
once in a list, except in Cisco's; no multiport match has more than one port over
the limit; what SRX refers to is in its books). The last one says nothing against
ipset's sets, which two filters may both create, nor against a match that is left
without ports.

Half of the proof is about one term, without any state. Each platform divides a
term among rules in its own way; what they share is that rules for the parts of a
list test together what one rule for all of it does (`EachTests`), that the rules
for the product of several lists test what the lists do one by one (`ProductIs`),
and that the statements a list of ports is divided among hold its ports, each up
to one more than the limit, as a range counts for two (`PortStatementsTest`). On
this rests a lemma for each platform (`IptablesCase`, `CiscoCase`, `AsaCase`,
`JuniperCase`, `SrxCase`, `PacketFilterCase`): under its `...AsMeant`, the block
answers its term (`EveryAnswers`). For the excludes they need what taking one out
leaves: ipaddr's `address_exclude` again, the jumps of iptables, which are right
because a packet that leaves a block comes back to the next one, and the loop of
SRX (`SrxSideHolds`). The options are why a block may catch more than its term
must catch and has a bound of its own: a term for established connections is
rendered for flags, or for states.

The other half is about the generator. `GInv` (the theorem `GInvIsInvariant`)
says where it is in its policy (`Progress`), that each entry of a list fits the
list, has been prepared for the platform, and for SRX is in its address book and
among its applications (`Fitting`), and that each block is the rendering of an
entry of its list (`Written`). The books only grow, so that what was right when
the block was rendered stays so; with `EveryAnswers`, `RenderedIsMeant` follows.
`Reach` says of everything that outlives a filter which headers up to here decide
it: those that name a default or nostate, the first one for pf's family, the last
list with entries for what a reject answers. `SettingsHold` keeps of this what
should be so, and leaves what one filter does to the next
(`SettingsAreOfTheFilter`).

`WInv` adds the places of the blocks (`Placed`): there is a function from the
blocks to entries of the lists that ascends and misses none, so that each entry
up to the one at hand is rendered once and in order. `DInv` adds the same for the
entries of a list and those terms of its filter that stay in it (`AllFilled`).
Together they map the blocks that catch a packet to the terms it meets, in order
(`SameDecision`), so that the first to decide is the same. One thing stands
between: the terms of a list are not those of the policy but have high ports
added, which `TranslatedAsks` shows to ask for the same.

**Only model-checked**

* `ExactIsReached` of `AclCheck`: it says that there is a packet, so that it is
  about the packets of the instance, and about terms that leave some packet out: a
  term for packets of 0 to 65535 bytes is a possible match in the code
  (`aclcheck.py:233`) and matches every packet, so that an exact match after it is
  reached by none.
* Liveness: `EveryPushEnds`, `CallEnds`, and the fairness of `CommandChannel` for
  `IosDevice`. ENABLED and fairness are out of the prover's reach.

## Disagreements between the code and what is said of it

Four have a run with a counterexample:

* `policy.py:226` and `policy.py:199` (`aclgen_options`): the globals that carry the
  options of `ParsePolicy` are put back by the first filter that is compared, and by
  the first term that is translated. `shade_check=True` therefore examines the first
  filter only, and `optimize=False` holds for the first term only, although
  `ParsePolicy` (`policy.py:1779-1781`) says both of the policy, and `aclgen.py:131`
  relies on the second for SRX.
* `iptables.py:653` (`generators_headers`): nostate and the default action of one
  filter hold for those after it, against `doc/policy_format.txt:69-74`, which gives
  them to the target of a filter.
* `naming.py:256` (`naming_recursion`): services that use each other in a circle end
  the lookup in Python's recursion limit, two lines below "Make sure we are not
  descending into recursion hell".
* `ios.py:222` (`ios_refusal_reported`): a refusal of the router to copy the file is
  taken for success, as the pattern for anything with a `%` comes before the one for
  errors.

Observed while modelling, with no run of their own: the module does what the code
does, and the property that comes near says what it leaves out. In the compiler:

* `policy.py:375`: `CheckProtocolIsContained` takes the superset first and is given
  the protocols of the other term there. A term for tcp and udp is reported as
  shaded by an earlier one for tcp, though udp reaches it, against `policy.py:213`
  ("impossible to reach"); and a term for tcp after one for tcp and udp is
  overlooked. `ComparedAsMeant` and `SimplePair` leave out the one and the other.
* `nacaddr.py:63-65`: whether a comment is there already is asked of the text, so
  that one that is part of another one is dropped, against lines 57 to 59
  ("Append comment to self.text, comma seperated."). `TextsAreKept` says only that a
  text is part of what is there.
* `aclgen.py:84`, `iptables.py:597`: the suffix of iptables is empty, and
  `a.acl.pol` for iptables and `a.pol` for Cisco are written to one file.
  `EarlierFilesComplete` makes an exception of platforms without a suffix.
* `iptables.py:48`, `ipset.py:43-47`: next is `-j RETURN`, which leaves the chain of
  a term in iptables. ipset writes no such chains, so that it ends the filter,
  where "terms with next as an action do not terminate evaluation"
  (`policy.py:230`). `juniper.py:430`: with a routing instance no action is written.
  `ActionsKept` leaves both out.
* `juniper.py:278`: for an `address` list without addresses of the family the
  message is filled in without a direction, and `substitute` raises `KeyError`
  where the term was to be left out (`aclgenerator.py:115`).
* `policy.py:666`: a term with an exclude on one of its lists is compared as if
  the others were empty, and the empty list is every address. A term that can be
  reached is reported as shaded, against `policy.py:213` ("impossible to reach"):
  if the first term is for sources 0 to 3 except 1 and destinations 0 and 1, one
  for source 0 and destination 2 is refused.
* `policy.py:694-699`: `_FlattenAddresses` edits the list it iterates over. An
  address with two excludes inside it is popped twice, so that the second pop
  takes another entry or raises `IndexError`; the entry that moves into the gap
  is skipped; an entry that lies strictly inside an exclude stays.
  `FlattenedIsReduced` is therefore stated for lists with one exclude that no
  entry lies strictly inside of and that one entry at most holds (`ExcludesFit`).
  A list that its exclude swallows becomes empty, that is every address, in the
  term that will be rendered.
* `policy.py:384`: `protocol_except` against `protocol_except` is refused when it
  is contained and accepted when it is not. `policy.py:476-493`: ranges of
  fragments and lengths are compared the wrong way round, and `policy.py:469`
  compares options, all of which a packet must have, as if one would do.
  `ComparedAsMeant` leaves these out, of the theorem and of `ShadedIsUnreachable`.
* `policy.py:444`: `other.sport` is not an attribute of a term; the comparison of
  `port` raises `AttributeError` when the lists themselves are not contained
  (`PortFails`).
* `policy.py:494-504`: ICMP types and platforms are compared with `is not`, which
  is true of any two sorted copies: such a term never shades.
* `policy.py:851`, `policy.py:856`: `SanityCheck` documents
  `TermAddressExclusionError`, and `InvalidTermActionError` for an action beside a
  routing instance, and raises neither.
* `aclcheck.py:121-170`: `address`, `port`, excludes, prefixes, and options it does
  not name are not looked at, and a term that has them may be an exact match of a
  packet it does not match. `LooksAtAllOf` leaves such terms out of
  `ExactIsReached` and `DecisionIsReported`, but not of `ShadedTermIsNeverExact`.
* `naming.py:227`: a service that lists itself is looked up, a network that lists
  itself is not: the lookup ends in the recursion limit.
* `naming.py:482`: the values of a line without a symbol go to the last
  definition, be it of another file or of the other type; at the start of a file
  that is the last one of the file read before. After a collision in a list,
  `current_symbol` and the unit that values go to are different definitions.
* `naming.py:487`: the names in a line with a comment are stored with it. They are
  not checked for being defined, against `naming.py:77` ("Raised if an address is
  referenced but not defined."), and the lookups of parents do not follow them.
* `naming.py`: an IPv6 network that begins with a letter (`fe80::/10`) is taken for
  a name by the lookups of parents. A `GetIpParents` of an address raises
  `ValueError` when a network lists a service's value.
* `cisco.py:265`: the addresses of an object-group list "are defined elsewhere in
  the acl", but its lines name a group after each address and the groups are named
  after their definitions. The groups themselves are not modelled.
* `cisco.py`, `ciscoasa.py`, `juniper.py`, `iptables.py`: a term for several
  protocols is left out of a list altogether when one of them is the ICMP of the
  other version (`PartlyMismatched`). All but iptables ignore an exclude on a side
  without addresses (`ExcludesFromAny`).
* `cisco.py`: `port`, `address` and options other than established are ignored in
  extended lists; the excludes of `address` in standard ones. Names may be there
  twice. `ciscoasa.py`: established is never written, as TCP is looked for by
  its number among names; only the first filter is returned. Filters for other
  platforms are translated as well, and the keywords of their terms have not been
  looked at (`AsaAsMeant` asks that they are supported).
* `juniper.py`: an exclude that holds an address of the term is elided and the
  address stays; `address_exclude` and the keywords that
  `has_match_criteria` does not name (ICMP types, options, lengths alone) are
  dropped, and the term is for every packet.
* `junipersrx.py`: address books and applications are filled for all filters
  before the first is written. The parts of an address that an exclude has split
  have no token, and all such parts of a zone are one set; an application has the
  name of its term, also when two filters have a term of that name; an expired
  term is only warned about; a side that its excludes have emptied is any.
* `packetfilter.py`: excludes are alternatives of their own (`! x` beside the
  addresses), a range of ports is written as its two ends, `platform`, `verbatim`
  and most options are ignored, and the family of the first filter is that of
  all.
* `iptables.py:98`: the table of actions is shared by all terms of the process,
  and the last term that was made decides what `reject` answers.
  `iptables.py:571`: a list of ports that ends exactly at the limit leaves a match
  without ports, which `WellFormed` permits. `iptables.py:371`: a side that its
  excludes have emptied is written as it was, when jumps would be longer, against
  `doc/policy_format.txt:171` ("The source-exclude will remove the NYC netblock from
  the permitted source addresses").
* `ipset.py:151`: terms of the same name in two filters create the same set twice.
  `WellFormed` is about the names of one list and permits it.

In the pusher:

* `paramiko_device.py:115`: the channel that is opened after a session was dropped
  is not given the timeout of `base_device.py:43` ("Default device response timeout
  in seconds."), and a device that says nothing keeps `Cmd` for ever (`CallEnds`
  makes an exception of it).
* `paramiko_device.py:177`: a session that is lost while the output is read looks
  like the end of the output, which is empty or cut short. The abstract channel
  promises that the command was run, not that its output is whole.
* `ios.py:196`: the first line that looks like the answer to a verify is taken, of
  whatever file. After a timeout the checksum of an earlier push of the same data may
  let a file through that was cut short, against `ios.py:193` ("Get the MD5 hexdigest
  of the file on the remote device."). `OnlyWholeFiles` says that it takes that.
* `junos.py:440`: a `CmdError` in the clean-up, in a finally clause, hides the
  `SetConfigSyntaxError` of the load, against `base_device.py:364`.
* `ios.py:118`: after a TIMEOUT the session stays, and what comes late answers the
  next command (`ResponseIsOwn` asks for a quiet session).
* `ios.py`: the `ConnectError` of `_DisablePager`, a second TIMEOUT in `_Cmd`,
  the `socket.timeout` of scp's first byte, and the exceptions of
  `ScpPutConnection`'s constructor pass through `Cmd` and `SetConfig`, which
  document others. A failed upload leaves its file, as the finally clause has not
  been entered. The empty line that begins `_DeleteFile` may confirm a question
  of the copy that came late. An error of the deletion leaves a prompt unread,
  and one of `wr mem` that begins with `%Error` is not noticed. `ScpPut` never
  closes its session.
* `push.py:179`: for more than 100 targets the bar is given a value beyond its end
  and raises, if it is the bar it seems to be (it is not in the repository):
  main stops with threads running and targets left. `JoinFiles` reads the files
  again for each device, and every device gets all of them. What a thread raises
  skips `Disconnect` and is seen on its standard error only.
* `base_device.py:410`: `ParamikoDevice._GetConnected` is never called, so that
  `Connect` after a lost session returns at once.
* `base_device.py:257`: `connected` is what the object was last told, not whether
  its session lives.
* `junos.py:149`: a canary whose transcript was cut short passes for checked, as
  nothing in it is an error.
* `aclgen.py:80`: `filter_name` drops the first component of the source's path,
  which is the policy directory, unless that is `.`: then `a/x.pol` and `b/x.pol`
  have one output.
* `sshclient.py:112`: the flag is cleared after the lock is released, so that
  every thread that waits for the lock loads the file again. Harmless but for the
  work (`UseFindsOptions`).
* `policy.py:1794`: a `ParsePolicy(shade_check=True)` that fails before its first
  filter leaves `_SHADE_CHECK` set for the next call.
* `policy.py:956`: (10, 20) and (20, 30) are not joined, as the test is `<`. The
  ports are right, the list is not the shortest (the theorem `CollapseSeparates`
  allows a shared end point).
* `paramiko_device.py:140`: a session that the retry in `Cmd` opens after a
  `Disconnect` is not closed by the next one, as `connected` is not set.
* `base_device.py:198`: `_dampen_end_time` is never assigned.

## Not modelled

* Text: the grammar (ply) and `SanityCheck`, whose verdicts are outcomes of a term
  in `PolicyCompile`; the syntax each generator writes; comments, logging and
  counters.
* The object groups of `cisco.py`; `demo.py`, an example of a generator.
* `PolicyReader`, which selects terms by their text, and the command line of
  aclcheck.
* The other vendors: their `_Cmd` and `_SetConfig` are commands over one of the
  two kinds of session that are modelled, and differ in prompts and messages.
* `JoinFiles`, the flags of `push.py`, and the output of commands.
* Pure input and output: `definate`, `cgrep`.
* Vendored code, but for the operators of ipaddr in `IpNetworks`.

## Plan

What is left, in the order of what a failure would cost.

1. Terms before `Shading`: `AddressCleanup` and the exclusion it does for one
   version, composed of `NacAddr` and `PortList`.
2. `PolicyReader`, over the same terms as `Shading`.
3. The sessions of Brocade, whose prompts are told apart by patterns, on the shell
   of `IosDevice`.

Of theorems, `ExactIsReached` for packets in every combination, as `PartsCombine`
asks of them for `Shading`.
