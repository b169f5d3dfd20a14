------------------------------- MODULE Capture -------------------------------
(***************************************************************************)
(* One device's .rsc file: the SSH conversation of routeros/mod.rs capture *)
(* and what routeros/export.rs makes of the answers.                       *)
(*                                                                         *)
(* A text is a sequence of lines.  A line is blank, a comment or live (a   *)
(* line RouterOS would execute), and says something; an answer of a        *)
(* /system print is the set of the facts it has.  Line endings, the white  *)
(* space around keys and values, and the decoding of the bytes are left    *)
(* out.  The file written here is what BackupRepo stores.                  *)
(***************************************************************************)
EXTENDS Naturals, SequencesExt

CONSTANTS
    Names,        \* what the router can be called
    Versions,     \* RouterOS versions
    Configs,      \* configurations: texts that start with a live line
    Accounts,     \* what the /user prints show: texts without a line like a banner's
    Kinds,        \* "board", "chr" without a routerboard, "bare" without a banner
    MaxCaptures,  \* bound on exports
    MaxChanges,   \* bound on changes of the router
    None

IsText(text) ==
    /\ text \in Seq(Range(text))
    /\ \A i \in DOMAIN text : text[i].kind \in {"blank", "comment", "live"}
IsBannerStart(line) == line.kind = "comment" /\ line.says # <<>> /\ line.says[1] = "routeros"

\* split_at_export_banner counts on it that the first line "# ... by RouterOS ..." of an
\* output is the banner's.
ASSUME CaptureAssumption ==
    /\ Kinds \subseteq {"board", "chr", "bare"}
    /\ \A text \in Configs \cup Accounts : IsText(text)
    /\ \A config \in Configs : config # <<>> /\ config[1].kind = "live"
    /\ \A accounts \in Accounts : \A i \in DOMAIN accounts : ~IsBannerStart(accounts[i])
    /\ MaxCaptures \in Nat /\ MaxChanges \in Nat

VARIABLES
    router,     \* the router: kind, name, version, config, accounts
    normalize,  \* options.normalize_header
    stage,      \* what the conversation asks next
    info,       \* RouterInfo, as collected by now
    file,       \* contents of the last capture
    captures,   \* exports so far, which is also the router's clock
    changes,    \* changes of the router so far
    began,      \* history: the router when the conversation began, if it is the same
    answered,   \* history: the prints that were answered
    taken       \* history: what file was made from

vars == <<router, normalize, stage, info, file, captures, changes, began, answered, taken>>

Line(kind, says) == [kind |-> kind, says |-> says]
Blank == Line("blank", <<>>)
Comment(says) == Line("comment", says)

Routers ==
    [kind : Kinds, name : Names, version : Versions, config : Configs, accounts : Accounts]

-----------------------------------------------------------------------------
(* What the router says *)

Fields == {"identity", "model", "serial number", "software id", "architecture", "routeros"}
NoInfo == [f \in Fields |-> None]

\* The fields of each source.
Tells == [resource    |-> {"routeros", "model", "architecture"},
          identity    |-> {"identity"},
          routerboard |-> {"serial number", "model"},
          banner      |-> {"routeros", "model", "serial number", "software id"}]

\* The sources spell the version and the model in ways of their own.
Fact(r, source, field) ==
    IF field = "identity" THEN <<r.name>>
    ELSE IF field = "routeros" THEN <<r.version, source>>
    ELSE IF field = "model" THEN <<field, source>>
    ELSE <<field>>

\* from_resource_print, from_identity_print, from_routerboard_print.
Answer(r, source) ==
    [f \in Fields |-> IF f \in Tells[source] THEN Fact(r, source, f) ELSE None]

\* The clock stands in the line that has the version.
Banner(r, clock) ==
    IF r.kind = "bare" THEN <<>>
    ELSE << Comment(<<"routeros", Fact(r, "banner", "routeros"), clock>>),
            Comment(<<"software id", Fact(r, "banner", "software id")>>),
            Comment(<<>>) >>
         \o (IF r.kind = "chr" THEN <<>>
             ELSE << Comment(<<"model", Fact(r, "banner", "model")>>),
                     Comment(<<"serial number", Fact(r, "banner", "serial number")>>) >>)
         \o << Blank >>

\* command_line: the two /user prints, and then the export.
Output(r, clock) == r.accounts \o Banner(r, clock) \o r.config

-----------------------------------------------------------------------------
(* What export.rs makes of it *)

\* merge_from: what is known already stays.
MergeFrom(into, other) == [f \in DOMAIN into |-> IF into[f] = None THEN other[f] ELSE into[f]]

\* Where the banner starts, 0 if there is none.
BannerAt(text) == SelectInSeq(text, IsBannerStart)

\* split_at_export_banner: a text without a banner is all export.
Split(raw) ==
    LET at == BannerAt(raw)
    IN IF at = 0 THEN [prefix |-> <<>>, export |-> raw]
       ELSE [prefix |-> SubSeq(raw, 1, at - 1), export |-> SubSeq(raw, at, Len(raw))]

IsLive(line) == line.kind = "live"

\* How many lines banner_lines and strip_banner pass over.
Leading(text) ==
    LET at == SelectInSeq(text, IsLive) IN IF at = 0 THEN Len(text) ELSE at - 1

FromBanner(export) ==
    LET lines == {i \in 1..Leading(export) : export[i].says # <<>>}
        Of(f) == {i \in lines : export[i].says[1] = f}
    IN [f \in Fields |->
           IF Of(f) = {} THEN None ELSE export[Max(Of(f))].says[2]]

\* A slip: the banner stays.
StripNothing(export) == export
StripBanner(export) == SubSeq(export, Leading(export) + 1, Len(export))

\* A slip: the prints as they are.
AsTheyAre(text) == text
CommentAsRem(text) ==
    [i \in DOMAIN text |->
        IF text[i].kind = "blank" THEN Blank ELSE Comment(<<"REM", text[i].says>>)]

\* A slip: blank lines at the end stay.
TrimNothing(text) == text
\* ensure_trailing_newline.
Trimmed(text) == SubSeq(text, 1, SelectLastInSeq(text, LAMBDA line : line # Blank))

\* push_field leaves out what is not known.
PushField(out, field, known) ==
    IF known[field] = None THEN out ELSE Append(out, Comment(<<field, known[field]>>))

Header(known) ==
    LET named    == << Comment(<<"captured by DonDude">>), Comment(<<"device">>) >>
        identity == PushField(named, "identity", known)
        model    == PushField(identity, "model", known)
        serial   == PushField(model, "serial number", known)
        software == PushField(serial, "software id", known)
        arch     == PushField(software, "architecture", known)
        version  == PushField(arch, "routeros", known)
    IN version \o << Comment(<<"command">>), Comment(<<>>) >>

\* Without normalize_header the text stays as it came.
Render(raw, split, known) ==
    IF ~normalize THEN Trimmed(raw)
    ELSE Trimmed(Header(known) \o CommentAsRem(Trimmed(split.prefix))
                     \o StripBanner(split.export))

-----------------------------------------------------------------------------
(* The conversation *)

After == [resource |-> "identity", identity |-> "routerboard", routerboard |-> "export"]

\* Connecting is FleetSweep's.
Connect ==
    /\ stage = "idle" /\ captures < MaxCaptures
    /\ stage' = "resource"
    /\ info' = NoInfo
    /\ began' = router /\ answered' = {}
    /\ UNCHANGED <<router, normalize, file, captures, changes, taken>>

\* collect_info; a print that fails is skipped.
Ask ==
    /\ stage \in DOMAIN After
    /\ stage' = After[stage]
    /\ \/ ~(stage = "routerboard" /\ router.kind = "chr")
          /\ info' = MergeFrom(info, Answer(router, stage))
          /\ answered' = answered \cup {stage}
       \/ UNCHANGED <<info, answered>>
    /\ UNCHANGED <<router, normalize, file, captures, changes, began, taken>>

Ends ==
    /\ stage' = "idle" /\ captures' = captures + 1
    /\ info' = NoInfo /\ began' = None /\ answered' = {}

\* exec_checked takes what arrives.  A channel that is closed early without an exit
\* status counts as one that ended well (exec: unwrap_or(0)).
Export ==
    /\ stage = "export"
    /\ \E raw \in Prefixes(Output(router, captures)) :
        /\ Trimmed(raw) # <<>>
        /\ LET split == Split(raw)
           IN file' = Render(raw, split, MergeFrom(info, FromBanner(split.export)))
        /\ taken' = [from |-> began, answered |-> answered, config |-> router.config,
                     banner |-> router.kind # "bare" /\ Len(raw) > Len(router.accounts),
                     whole |-> raw = Output(router, captures)]
    /\ Ends
    /\ UNCHANGED <<router, normalize, changes>>

\* The connection fails, the export is refused or prints nothing: no file.
Fails ==
    /\ stage # "idle"
    /\ Ends
    /\ UNCHANGED <<router, normalize, file, changes, taken>>

\* The router's operator, at any time.
RouterChanges ==
    /\ changes < MaxChanges
    /\ changes' = changes + 1
    /\ router' \in {[router EXCEPT !.name = name] : name \in Names}
            \cup {[router EXCEPT !.version = version] : version \in Versions}
            \cup {[router EXCEPT !.config = config] : config \in Configs}
            \cup {[router EXCEPT !.accounts = accounts] : accounts \in Accounts}
    /\ router' # router
    /\ began' = None
    /\ UNCHANGED <<normalize, stage, info, file, captures, answered, taken>>

-----------------------------------------------------------------------------
(* Specification *)

Init ==
    /\ router \in Routers
    /\ normalize \in BOOLEAN
    /\ stage = "idle" /\ info = NoInfo /\ file = <<>>
    /\ captures = 0 /\ changes = 0
    /\ began = None /\ answered = {} /\ taken = None

Next == Connect \/ Ask \/ Export \/ Fails \/ RouterChanges

Spec == Init /\ [][Next]_vars

-----------------------------------------------------------------------------
(* Properties *)

TypeOK ==
    /\ router \in Routers /\ normalize \in BOOLEAN
    /\ stage \in {"idle", "export"} \cup DOMAIN After
    /\ DOMAIN info = Fields
    /\ IsText(file)
    /\ file # <<>> => file[Len(file)] # Blank
    /\ captures \in 0..MaxCaptures /\ changes \in 0..MaxChanges
    /\ answered \subseteq DOMAIN After

\* Change detection rests on it (export.rs): two captures of a router that did not
\* change and that answered the same prints give the same file, although its clock
\* moved between them.
QuietRouterSameFile ==
    [][/\ normalize /\ taken # None /\ taken' # None
       /\ taken.whole /\ taken'.whole
       /\ taken.from # None /\ taken.from = taken'.from
       /\ taken.answered = taken'.answered
       => file' = file]_vars

\* What RouterOS executes if the file is imported is the router's configuration, all
\* of it if all of it arrived, and never the lines of the /user prints: those are
\* remarks (render).  Where no banner arrived nothing tells the two apart.
FileIsTheConfig ==
    (normalize /\ taken # None /\ taken.banner) =>
        \E n \in 0..Len(file) :
            /\ \A i \in 1..n : ~IsLive(file[i])
            /\ IsPrefix(SubSeq(file, n + 1, Len(file)), taken.config)
            /\ taken.whole =>
                \A i \in (Len(file) - n + 1)..Len(taken.config) : ~IsLive(taken.config[i])

-----------------------------------------------------------------------------
(* The inductive invariant *)

\* What has been collected of a router that has not changed.
Asked(r, sources) ==
    LET Told(source) == IF source \in sources THEN Answer(r, source) ELSE NoInfo
    IN MergeFrom(MergeFrom(MergeFrom(NoInfo, Told("resource")), Told("identity")),
                 Told("routerboard"))
Collected ==
    began # None => /\ began = router /\ stage # "idle" /\ info = Asked(router, answered)
                    /\ stage \in {"resource", "identity", "routerboard"} => stage \notin answered
                    /\ stage \in {"resource", "identity"} => "routerboard" \notin answered
                    /\ stage = "resource" => "identity" \notin answered

\* A conversation in progress is not counted yet.
Counted == stage # "idle" => captures < MaxCaptures

\* The file of a router, of what it answered and of its clock.
Made(r, sources, clock) ==
    LET split == Split(Output(r, clock))
    IN Render(Output(r, clock), split, MergeFrom(Asked(r, sources), FromBanner(split.export)))
FileMade ==
    (taken # None /\ taken.whole /\ taken.from # None) =>
        /\ taken.from \in Routers
        /\ \E clock \in 0..MaxCaptures : file = Made(taken.from, taken.answered, clock)

IInv == TypeOK /\ Counted /\ Collected /\ FileMade /\ FileIsTheConfig

=============================================================================
