------------------------------- MODULE KoreCli -------------------------------
(* kodev (cli.c): create, build, clean and flavor of an application whose  *)
(* files somebody edits meanwhile, with commands that fail or are          *)
(* interrupted at any step.  A source is the instant of its last edit, 0   *)
(* if there is none; files bear and kodev compares whole seconds, each of  *)
(* several instants.  An asset is first written as a C file.  A source is  *)
(* known by its base name, after which its object is called (cli.c:1094,   *)
(* 1236): two of one name in two directories, which would share an object, *)
(* are not modelled.                                                       *)
EXTENDS Naturals, FiniteSets

CONSTANTS
  None,
  Sources,      \* below src, and below assets:
  Assets,
  Flavors,      \* of conf/build.conf, with "dev"
  Single,       \* single_binary
  PerSecond,    \* instants in a second
  MaxInstant,   \* bound: the last instant
  MaxTrouble    \* bound: commands that fail or are interrupted

(* Where a command can be; or it is at the time of the object of a source. *)
Steps ==
  {"idle", "create", "kore", "assets", "compile", "certs", "link", "said", "clean", "cleaned"}

Cflags(f) == {"_default", f}

(* st_mtime, and utimes with tv_usec 0.                                    *)
Mtime(instant) == instant \div PerSecond

(* An object has a time in seconds, and the code of a source at an         *)
(* instant: 0 if the compiler was cut off.                                 *)
Objects   == [time : Nat, code : Nat, flags : SUBSET (Flavors \cup {"_default"})]
CliAssumption ==
  /\ "dev" \in Flavors /\ Single \in BOOLEAN /\ Assets \subseteq Sources
  /\ Sources \cap Steps = {} /\ PerSecond \in Nat \ {0}
  /\ None \notin Objects /\ None \notin [Sources -> Objects \cup {None}]

VARIABLES
  app,          \* the directory: "none", "some" or all of the "files"
  cert,         \* "none", the "directory" or the "files" in it
  now,          \* the clock
  src,          \* when each source was last edited
  cfile,        \* what the C file of each asset was made of
  obj,          \* object of each
  linked,          \* what was linked of each source
  dotflavor,    \* .flavor
  pc,           \* where the command that runs is
  flavor, unread,       \* its flavor; the assets it has not come to
  reg, todo, relink,    \* cfile.st, cfile.build, requires_relink
  said,         \* the last word of the last command: "nothing to be done!"
                \* or "built successfully!"
  trouble,      \* commands that went wrong, for the properties; clean helps
                \* against most
  hasty         \* sources edited, or objects cut off, in a second that kodev
                \* cannot tell from another edit; clean helps

onDisk == <<app, cert, now, src, cfile, obj, linked, dotflavor>>
local == <<flavor, unread, reg, todo, relink>>
cliVars == <<onDisk, pc, local, said, trouble, hasty>>

Nothing == [s \in Sources |-> None]

(* Nothing yet, or an application that somebody else made.                 *)
CliInit ==
  /\ \/ app = "none" /\ now = 0 /\ src = [s \in Sources |-> 0]
     \/ app = "files" /\ now = 1 /\ src = [s \in Sources |-> 1]
  /\ cert = "none" /\ cfile = [s \in Assets |-> 0]
  /\ obj = Nothing /\ linked = None /\ dotflavor = "dev"
  /\ pc = "idle" /\ flavor = "dev" /\ reg = [s \in Sources |-> 0]
  /\ unread = {} /\ todo = {} /\ relink = FALSE /\ said = "" /\ trouble = {}
  /\ hasty = {}

MayFail == Cardinality(trouble) < MaxTrouble

(* The command exits, at an error or because it is interrupted.            *)
Ends ==
  /\ pc' = "idle" /\ flavor' = "dev" /\ reg' = [s \in Sources |-> 0]
  /\ unread' = {} /\ todo' = {} /\ relink' = FALSE
Exits(why) == MayFail /\ Ends /\ trouble' = trouble \cup {why}
-----------------------------------------------------------------------------
(* kodev create: the directory must not be there; the certificates come    *)
(* last, in a directory that is made with the others.                      *)
Create ==
  /\ pc = "idle" /\ app = "none"
  /\ app' = "some" /\ cert' = "directory" /\ pc' = "create"
  /\ UNCHANGED <<now, src, cfile, obj, linked, dotflavor, local, said, trouble, hasty>>
Created ==
  /\ pc = "create"
  /\ \/ /\ app = "some" /\ app' = "files" /\ now' = 1
        /\ \E s \in Sources : src' = [src EXCEPT ![s] = 1]
        /\ UNCHANGED <<cert, pc, trouble>>
     \/ /\ app = "files" /\ cert' = "files" /\ pc' = "idle" /\ UNCHANGED <<app, now, src, trouble>>
     \/ /\ MayFail /\ pc' = "idle" /\ trouble' = trouble \cup {"create"}
        /\ UNCHANGED <<app, now, src, cert>>
  /\ UNCHANGED <<cfile, obj, linked, dotflavor, local, said, hasty>>
-----------------------------------------------------------------------------
RequiresBuild(s) == obj[s] = None \/ obj[s].time # Mtime(src[s])

(* cli_build up to the compilations.  KORE_BUILD_FLAVOR may name another   *)
(* flavor than .flavor.                                                    *)
Build(env) ==
  /\ pc = "idle" /\ app = "files"
  /\ flavor' = env
  /\ trouble' = IF env = dotflavor THEN trouble ELSE trouble \cup {"other flavor"}
  /\ reg' = [s \in Sources |-> IF s \in Assets THEN 0 ELSE src[s]]
  /\ todo' = {s \in Sources \ Assets : src[s] # 0 /\ RequiresBuild(s)}
  /\ unread' = Assets /\ relink' = FALSE /\ said' = ""
  /\ pc' = IF Single THEN "kore" ELSE "assets"
  /\ UNCHANGED <<onDisk, hasty>>

(* make objects in kore_source.                                            *)
CompileKore ==
  /\ pc = "kore" /\ pc' = "assets"
  /\ UNCHANGED <<onDisk, local, said, trouble, hasty>>

(* An asset is registered when its turn comes, and its C file written if   *)
(* its object is not of its time.                                          *)
BuildAsset(s) ==
  /\ pc = "assets" /\ s \in unread
  /\ unread' = unread \ {s} /\ reg' = [reg EXCEPT ![s] = src[s]]
  /\ IF src[s] # 0 /\ RequiresBuild(s)
     THEN cfile' = [cfile EXCEPT ![s] = src[s]] /\ todo' = todo \cup {s}
     ELSE UNCHANGED <<cfile, todo>>
  /\ UNCHANGED <<app, cert, now, src, obj, linked, dotflavor, pc, flavor, relink, said, trouble, hasty>>
AssetsAreBuilt ==
  /\ pc = "assets" /\ unread = {} /\ pc' = "compile"
  /\ UNCHANGED <<onDisk, local, said, trouble, hasty>>

(* A compiler runs on what the source is now; then the object gets the     *)
(* second of the source when it was registered.                            *)
Compiled(s) == IF s \in Assets THEN cfile[s] ELSE src[s]
CompileSourceFile(s) ==
  /\ pc = "compile" /\ s \in todo /\ Compiled(s) # 0
  /\ obj' = [obj EXCEPT ![s] = [time |-> Mtime(now), code |-> Compiled(s), flags |-> Cflags(flavor)]]
  /\ pc' = s
  /\ UNCHANGED <<app, cert, now, src, cfile, linked, dotflavor, local, said, trouble, hasty>>

TimeNow(s) == Mtime(src[s]) \* mutant: the time that the source has now
TimeOf(s)  == Mtime(reg[s])

Utimes(s) ==
  /\ pc = s
  /\ obj' = [obj EXCEPT ![s].time = TimeOf(s)]
  /\ relink' = TRUE /\ todo' = todo \ {s} /\ pc' = "compile"
  /\ UNCHANGED <<app, cert, now, src, cfile, linked, dotflavor, flavor, unread, reg, said, trouble, hasty>>

GenerateCerts ==
  /\ pc = "compile" /\ todo = {}
  /\ \/ cert = "none" /\ cert' = "directory" /\ pc' = "certs"
     \/ cert # "none" /\ pc' = "link" /\ UNCHANGED cert
  /\ UNCHANGED <<app, now, src, cfile, obj, linked, dotflavor, local, said, trouble, hasty>>
CertsAreMade ==
  /\ pc = "certs" /\ cert' = "files" /\ pc' = "link"
  /\ UNCHANGED <<app, now, src, cfile, obj, linked, dotflavor, local, said, trouble, hasty>>

Registered == {s \in Sources : reg[s] # 0}
MustLink   == relink \/ Single \/ (linked = None /\ Registered # {})
Link ==           \* the linker refuses what is not whole
  /\ pc = "link" /\ MustLink /\ \A s \in Registered : obj[s].code # 0
  /\ linked' = [s \in Sources |-> IF s \in Registered THEN obj[s] ELSE None]
  /\ said' = "built" /\ pc' = "said"
  /\ UNCHANGED <<app, cert, now, src, cfile, obj, dotflavor, local, trouble, hasty>>
NothingToDo ==
  /\ pc = "link" /\ ~MustLink
  /\ said' = "nothing" /\ pc' = "said"
  /\ UNCHANGED <<onDisk, local, trouble, hasty>>
BuildEnds == pc = "said" /\ Ends /\ UNCHANGED <<onDisk, said, trouble, hasty>>

(* A compiler fails, or it or kodev is interrupted: an object that was     *)
(* being made is gone, cut off or whole, with the second in which it was   *)
(* last written.                                                           *)
LeftOver(s) ==
  {None} \cup
  {[time |-> second, code |-> code, flags |-> obj[s].flags] :
     second \in obj[s].time..Mtime(now), code \in {0, obj[s].code}}
CompilerFails(s) ==
  /\ pc = s /\ Exits("compile")
  /\ \E left \in LeftOver(s) :
       /\ obj' = [obj EXCEPT ![s] = left]
       /\ hasty' = IF left # None /\ left.time = Mtime(src[s]) THEN hasty \cup {s} ELSE hasty
  /\ UNCHANGED <<app, cert, now, src, cfile, linked, dotflavor, said>>

(* The linker or another part fails, or the build is interrupted: the      *)
(* output may be gone.                                                     *)
BuildFails ==
  \/ pc \in {"compile", "kore", "assets"}
     /\ Exits(IF pc = "compile" /\ todo = {} THEN "link" ELSE "compile")
     /\ UNCHANGED <<onDisk, said, hasty>>
  \/ pc = "certs" /\ Exits("certs") /\ UNCHANGED <<onDisk, said, hasty>>
  \/ pc = "link" /\ Exits("link") /\ linked' \in {linked, None}
     /\ UNCHANGED <<app, cert, now, src, cfile, obj, dotflavor, said, hasty>>
-----------------------------------------------------------------------------
(* kodev clean, and kodev flavor, which cleans after it has changed        *)
(* .flavor.                                                                *)
Clean == 
  /\ pc = "idle" /\ app = "files" /\ pc' = "clean" /\ said' = ""
  /\ UNCHANGED <<onDisk, local, trouble, hasty>>
FlavorChange(f) ==
  /\ pc = "idle" /\ app = "files" /\ pc' = "clean" /\ said' = "" /\ dotflavor' = f
  /\ UNCHANGED <<app, cert, now, src, cfile, obj, linked, local, trouble, hasty>>
CleanupFiles ==
  /\ pc = "clean" /\ obj' = Nothing /\ pc' = "cleaned"
  /\ hasty' = {}
  /\ UNCHANGED <<app, cert, now, src, cfile, linked, dotflavor, local, said, trouble>>
Unlinks ==        \* only appl.so
  /\ pc = "cleaned" /\ linked' = (IF Single THEN linked ELSE None) /\ pc' = "idle"
  /\ trouble' = trouble \cap {"create", "certs"}
  /\ UNCHANGED <<app, cert, now, src, cfile, obj, dotflavor, local, said, hasty>>
CleanFails == pc \in {"clean", "cleaned"} /\ Exits("clean") /\ UNCHANGED <<onDisk, said, hasty>>

(* Time passes, and somebody edits a source, adds it or takes it away.     *)
Passes ==
  /\ app = "files" /\ now < MaxInstant /\ now' = now + 1
  /\ UNCHANGED <<app, cert, src, cfile, obj, linked, dotflavor, pc, local, said, trouble, hasty>>

(* The second of this instant is already that of the object, or of the     *)
(* version that the build has registered.                                  *)
SameSecond(s) ==
  \/ obj[s] # None /\ pc # s /\ obj[s].time = Mtime(now')
  \/ reg[s] # 0 /\ Mtime(reg[s]) = Mtime(now')

Edit(s) ==
  /\ app = "files" /\ now < MaxInstant
  /\ now' = now + 1 /\ src' = [src EXCEPT ![s] = now']
  /\ hasty' = IF SameSecond(s) THEN hasty \cup {s} ELSE hasty
  /\ UNCHANGED <<app, cert, cfile, obj, linked, dotflavor, pc, local, said, trouble>>
Deletes(s) ==
  /\ pc = "idle" /\ src[s] # 0 /\ MayFail
  /\ src' = [src EXCEPT ![s] = 0] /\ trouble' = trouble \cup {"removed"}
  /\ UNCHANGED <<app, cert, now, cfile, obj, linked, dotflavor, pc, local, said, hasty>>

CliNext ==
  \/ Create \/ Created
  \/ \E f \in Flavors : (f = dotflavor \/ MayFail) /\ Build(f)
  \/ CompileKore \/ AssetsAreBuilt \/ \E s \in Assets : BuildAsset(s)
  \/ \E s \in Sources : CompileSourceFile(s) \/ Utimes(s)
  \/ GenerateCerts \/ CertsAreMade \/ Link \/ NothingToDo \/ BuildEnds \/ BuildFails
  \/ \E s \in Sources : CompilerFails(s)
  \/ Clean \/ \E f \in Flavors : FlavorChange(f)
  \/ CleanupFiles \/ Unlinks \/ CleanFails
  \/ Passes \/ \E s \in Sources : Edit(s) \/ Deletes(s)

CliSpec == CliInit /\ [][CliNext]_cliVars
-----------------------------------------------------------------------------
(* An object that was compiled and has the time of a source has the code   *)
(* of that source: an edit while kodev builds is not lost for the next     *)
(* build (cli_file_requires_build, the utimes of cli_build).  Excluded by  *)
(* name, as `hasty`, is what whole seconds cannot tell: an edit in the     *)
(* second of the version that was built, or of an object that was left     *)
(* over, and an object left over in the second of its source.              *)
TimesAreTrue ==
  \A s \in Sources \ hasty :
    pc # s /\ obj[s] # None /\ src[s] # 0 /\ obj[s].time = Mtime(src[s]) => obj[s].code = src[s]

(* When kodev says that it built the application, or that nothing is to be *)
(* done, what it would run is of the flavor and not older than the sources *)
(* it found, unless since the last kodev clean, which helps against these, *)
(* a link failed, a source was removed, another flavor was built or a      *)
(* second was not enough (`hasty`); and there is a certificate to serve    *)
(* with, unless a create or a build was interrupted before it was made:    *)
(* its directory is enough for every later build (cli_build, cli_create).  *)
WhatItSays ==
  pc = "said" =>
    /\ trouble \subseteq {"create", "certs", "compile"} /\ hasty = {} =>
         /\ linked # None \/ Registered = {}
         /\ \A s \in Registered : /\ linked[s] # None /\ linked[s].code >= reg[s]
                                  /\ linked[s].flags = Cflags(flavor)
    /\ trouble \cap {"create", "certs"} = {} => cert = "files"

(* kodev: an edit while it builds is not lost, and what it says was built  *)
(* is what was asked for, as far as whole seconds tell (cli_build,         *)
(* cli_file_requires_build).                                               *)
BuildsAreTrue == TimesAreTrue /\ WhatItSays
=============================================================================
