----------------------------- MODULE ConfigFiles -----------------------------
(***************************************************************************)
(* The configuration files and the commands of the command line that write *)
(* them.  A command runs in a process of its own and takes no lock: a file  *)
(* is truncated in place and written when the stream is closed, what a      *)
(* write returns is not looked at, and a process can be killed at any step. *)
(*                                                                         *)
(* A file of domains, users, templates or tokens is the sequence of those   *)
(* of its lines that some command reads; api-config.conf is a text of       *)
(* module ApiConfig.                                                        *)
(***************************************************************************)
EXTENDS Naturals, ApiConfig

CONSTANTS
  Procs,
  DirsOf,       \* for each process the results of getConfigDirectory(): "etc",
                \* the directory that some commands always use, or "home"
  Domains, Users, Templates, Patterns, Providers,
  Longer,       \* the pairs of patterns of which the first begins the second
  Earlier,      \* files that earlier commands may have left, whole
  Absent,       \* no such file
  Faults,       \* opening a file or writing it may fail
  MaxCommands,  \* bound on the commands that are run
  MaxSecond,    \* bound on the clock
  MaxCut        \* bound on what a write that fails leaves of its text

ASSUME ConfigAssumption ==
  /\ DirsOf \in [Procs -> SUBSET {"etc", "home"}]
  /\ Earlier \subseteq {"etc", "home"} \X {"domain"} \X Domains
  /\ Longer \subseteq Patterns \X Patterns
  /\ Faults \in BOOLEAN /\ MaxCommands \in Nat /\ MaxSecond \in Nat /\ MaxCut \in Nat

VARIABLES
  files,     \* the text of each file, or Absent
  archives,  \* the archives of tar in the working directory
  job,       \* what each process is doing
  wizard,    \* the step of the setup wizard each process is at, and its directory
  second,    \* the second the last restore read from the clock
  commands,  \* commands started so far
  promise,   \* what the last command on a file said of it (history)
  muddled,   \* files and archives that no command answers for (history)
  gone       \* processes whose open stream is of a file that was unlinked since

vars == <<files, archives, job, wizard, second, commands, promise, muddled, gone>>

Names == ({"domain", "oauth2", "account", "json"} \X Domains) \cup ({"user"} \X Users)
           \cup ({"template"} \X Templates) \cup ({"address"} \X Patterns)
           \cup {<<"global", "all">>, <<"api", "all">>}
Paths == {<<d, n[1], n[2]>> : d \in {"etc", "home"}, n \in Names}

Kind(path)   == path[2]
InDir(d)     == {path \in Paths : path[1] = d}
Relative(path) == <<path[2], path[3]>>

(***************************************************************************)
(* The lines that the commands write                                       *)
(***************************************************************************)
On  == "enabled = true"
Off == "enabled = false"

DomainText_Server == <<On, "smtp_port", "auth_method">>
DomainText   == <<On, "smtp_server", "smtp_port", "auth_method">>
UserText     == <<On, "domain">>
GlobalText   == <<"[global]">>
TemplateText == <<"subject", "body", On>>
AddressText  == <<"pattern", "domain", On>>
OAuth2Text   == <<"client_id", "client_secret">>
AccountText  == <<"domain", "service_account_file">>

\* What is copied as a key is any file that the user names: a key, or another file.
JsonText     == <<"client_email", "private_key">>
NoKeyText    == <<"client_email", "type">>
JsonTexts    == {JsonText, NoKeyText}

TextLines == {On, Off, "smtp_server", "smtp_port", "auth_method", "domain", "[global]",
              "subject", "body", "pattern", "client_id", "client_secret",
              "service_account_file", "client_email", "private_key", "type"}

\* The pieces of a text of api-config.conf.
Pieces == {NL} \cup {<<mark, v>> : mark \in {"[", "#", "="}, v \in Providers}

ASSUME AbsentAssumption == Absent \notin Seq(TextLines) /\ Absent \notin Seq(Pieces)

\* enable and disable: every line with a flag is replaced, the others stay.
SetFlag(text, flag) == [i \in DOMAIN text |-> IF text[i] \in {On, Off} THEN flag ELSE text[i]]

\* validateConfig(): the lines without which a file is reported as an error.
validateDomainConfig         == {"smtp_server", "smtp_port"}
validateUserConfig           == {"domain"}
validateOAuth2Config         == {"client_id", "client_secret"}
validateServiceAccountConfig == {"client_email", "private_key"}
validateTemplate             == {"subject", "body"}

\* The file of a service account lies in the directory of the domains.
Required(kind) ==
  CASE kind \in {"domain", "account"} -> validateDomainConfig
    [] kind = "user"     -> validateUserConfig
    [] kind = "oauth2"   -> validateOAuth2Config
    [] kind = "json"     -> validateServiceAccountConfig
    [] kind = "template" -> validateTemplate
    [] OTHER             -> {}

ConfigErrors(d) ==
  {path \in InDir(d) : files[path] # Absent /\ ~(Required(Kind(path)) \subseteq Range(files[path]))}

(***************************************************************************)
(* Processes                                                               *)
(***************************************************************************)
\* A job: the step a command is at, the file it is about, the files it may
\* write, the text it is going to write, and what else it has to remember.
Idle == [at |-> "idle", op |-> "none", on |-> {}]
At(p, op, step) == job[p].op = op /\ job[p].at = step
OthersOn(p) == UNION {job[q].on : q \in Procs \ {p}}

End(p)        == job' = [job EXCEPT ![p] = Idle]
Goto(p, step) == job' = [job EXCEPT ![p].at = step]

\* A command that has written its file is done, unless it was the key of a service
\* account: the file that names the key is next.
Key(n)  == <<"etc", "json", n>>
Conf(n) == <<"etc", "account", n>>
Proceed(p) ==
  LET j == job[p] IN
  IF Kind(j.path) = "json"
  THEN job' = [job EXCEPT ![p] = [@ EXCEPT !.at = "open", !.path = Conf(j.path[3]),
                                          !.text = AccountText]]
  ELSE End(p)

\* A command that returns before it writes anything changes nothing and is no step.
Start(p, j) ==
  /\ job[p] = Idle /\ commands < MaxCommands
  /\ commands' = commands + 1
  /\ job' = [job EXCEPT ![p] = j]
  /\ muddled' = muddled \cup (j.on \cap OthersOn(p))
  /\ UNCHANGED <<files, archives, promise, gone>>

NoWizard == <<"none", "etc">>
Command(p, j) == wizard[p] = NoWizard /\ Start(p, j) /\ UNCHANGED <<wizard, second>>

\* The stream is opened for writing, which empties the file.
Open(p) ==
  /\ job[p].at = "open"
  /\ files' = [files EXCEPT ![job[p].path] = <<>>]
  /\ Goto(p, "write")
  /\ UNCHANGED <<archives, wizard, second, commands, promise, muddled, gone>>

\* The stream is written where this process is in the file: what another one
\* wrote since it was emptied stays where it is longer.
Overlay(text, old) == text \o SubSeq(old, Len(text) + 1, Len(old))

Written(p, text) ==
  LET j == job[p]
      old == IF files[j.path] = Absent THEN <<>> ELSE files[j.path]
  IN  IF j.at = "append" THEN old \o text ELSE Overlay(text, old)

\* The command answers for the file from now on, and for all of it when it wrote
\* the file anew and no other command was on it.
Answers(p, path, said, anew) ==
  /\ promise' = [promise EXCEPT ![path] = said]
  /\ muddled' = IF anew /\ path \notin OthersOn(p) THEN muddled \ {path} ELSE muddled

\* The file of a name is unlinked: a stream that is open for writing keeps the
\* file without the name.
Streams(path) == {q \in Procs : job[q].at = "write" /\ job[q].path = path}
Unlinked(path) == gone' = gone \cup Streams(path)

\* In the wizard a step that fails ends it, or the user goes on; without the
\* global configuration it always ends.
WizardMayEnd(p) ==
  \/ wizard' = [wizard EXCEPT ![p] = NoWizard]
  \/ Kind(job[p].path) # "global" /\ UNCHANGED wizard

\* A command that creates a file or appends to it says that it could not open
\* it; one that rewrites a file does not look, and reports success.
OpenFails(p) ==
  /\ Faults /\ job[p].at \in {"open", "append"}
  /\ End(p) /\ WizardMayEnd(p)
  /\ muddled' = IF job[p].op \in {"create", "account"} \/ job[p].at = "append"
                THEN muddled ELSE muddled \cup {job[p].path}
  /\ UNCHANGED <<files, archives, second, commands, promise, gone>>

\* A part of the text is written and the command reports success.
WriteFails(p) ==
  /\ Faults /\ job[p].at \in {"write", "append"} /\ p \notin gone
  /\ \E k \in 0..MaxCut :
       /\ k < Len(job[p].text)
       /\ files' = [files EXCEPT ![job[p].path] = Written(p, SubSeq(job[p].text, 1, k))]
  /\ End(p)
  /\ muddled' = muddled \cup {job[p].path}
  /\ UNCHANGED <<archives, wizard, second, commands, promise, gone>>

\* What goes to a file that has no name any more is nowhere, and the command
\* reports success, or goes on.
WriteLost(p) ==
  /\ job[p].at = "write" /\ p \in gone
  /\ gone' = gone \ {p}
  /\ muddled' = muddled \cup {job[p].path}
  /\ Proceed(p)
  /\ UNCHANGED <<files, archives, wizard, second, commands, promise>>

\* The process is killed.  A file that it emptied stays as it is.
Crash(p) ==
  /\ job[p] # Idle \/ wizard[p] # NoWizard
  /\ End(p) /\ wizard' = [wizard EXCEPT ![p] = NoWizard]
  /\ muddled' = IF job[p].at = "write" THEN muddled \cup {job[p].path} ELSE muddled
  /\ gone' = gone \ {p}
  /\ UNCHANGED <<files, archives, second, commands, promise>>

(***************************************************************************)
(* Commands that create a file                                             *)
(***************************************************************************)
Creation(path, text) ==
  [at |-> "open", op |-> "create", path |-> path, on |-> {path}, text |-> text]

DomainFile(d, n) == Creation(<<d, "domain", n>>, DomainText)
UserFile(d, n)   == Creation(<<d, "user", n>>, UserText)
OAuth2File(n)    == Creation(<<"etc", "oauth2", n>>, OAuth2Text)

addDomain(p, d, n)          == Command(p, DomainFile(d, n))
addUser(p, d, n)            == Command(p, UserFile(d, n))
setupOAuth2(p, n)           == Command(p, OAuth2File(n))
createTemplate(p, n)        == Command(p, Creation(<<"etc", "template", n>>, TemplateText))
createAddressTemplate(p, n) == Command(p, Creation(<<"etc", "address", n>>, AddressText))

WriteNew(p) ==
  /\ At(p, "create", "write") /\ p \notin gone
  /\ files' = [files EXCEPT ![job[p].path] = Written(p, job[p].text)]
  /\ Answers(p, job[p].path, job[p].text, TRUE)
  /\ End(p)
  /\ UNCHANGED <<archives, wizard, second, commands, gone>>

(***************************************************************************)
(* enable, disable, remove                                                 *)
(***************************************************************************)
Rewrite_Unchecked(p, path, flag) ==
  Command(p, [at |-> "read", op |-> "flag", path |-> path, on |-> {path}, flag |-> flag])
Rewrite(p, path, flag) ==
  /\ files[path] # Absent
  /\ Command(p, [at |-> "read", op |-> "flag", path |-> path, on |-> {path}, flag |-> flag])

\* The name of the file of a service account is also the name of a domain.
enableDomain(p, d, n)  == \E k \in {"domain", "account"} : Rewrite(p, <<d, k, n>>, On)
disableDomain(p, d, n) == \E k \in {"domain", "account"} : Rewrite(p, <<d, k, n>>, Off)
enableUser(p, d, n)    == Rewrite(p, <<d, "user", n>>, On)
disableUser(p, d, n)   == Rewrite(p, <<d, "user", n>>, Off)

\* A file that is gone has no lines.
ReadLines(p) ==
  LET old == files[job[p].path] IN
  /\ At(p, "flag", "read")
  /\ job' = [job EXCEPT ![p] = [at |-> "open", op |-> "flag", path |-> @.path, on |-> @.on,
                                flag |-> @.flag,
                                text |-> IF old = Absent THEN <<>> ELSE SetFlag(old, @.flag)]]
  /\ UNCHANGED <<files, archives, wizard, second, commands, promise, muddled, gone>>

WriteFlag(p) ==
  LET j == job[p] IN
  /\ At(p, "flag", "write") /\ p \notin gone
  /\ files' = [files EXCEPT ![j.path] = Written(p, job[p].text)]
  /\ Answers(p, j.path, IF promise[j.path] = Absent THEN Absent ELSE SetFlag(promise[j.path], j.flag),
             FALSE)
  /\ End(p)
  /\ UNCHANGED <<archives, wizard, second, commands, gone>>

Removal(p, path, victim) ==
  /\ files[victim] # Absent
  /\ Command(p, [at |-> "unlink", op |-> "remove", path |-> path, victim |-> victim,
                 on |-> {path, victim}])

removeDomain(p, d, n) ==
  \E k \in {"domain", "account"} : Removal(p, <<d, k, n>>, <<d, k, n>>)
removeUser(p, d, n)     == Removal(p, <<d, "user", n>>, <<d, "user", n>>)
removeTemplate(p, d, n) == Removal(p, <<d, "template", n>>, <<d, "template", n>>)

\* The first file, in the order of the directory, with a line that contains
\* "pattern = " and the pattern: a longer pattern's file will do.
removeAddressTemplate(p, d, n) ==
  \E m \in {n} \cup {q \in Patterns : <<n, q>> \in Longer} :
    LET victim == <<d, "address", m>> IN
    /\ files[victim] # Absent /\ Contains(files[victim], "pattern")
    /\ Removal(p, <<d, "address", n>>, victim)

Unlink(p) ==
  LET j == job[p] IN
  /\ At(p, "remove", "unlink")
  /\ files' = [files EXCEPT ![j.victim] = Absent]
  /\ IF j.victim = j.path THEN Answers(p, j.path, Absent, TRUE)
     ELSE muddled' = muddled \cup j.on /\ UNCHANGED promise
  /\ Unlinked(j.victim)
  /\ End(p)
  /\ UNCHANGED <<archives, wizard, second, commands>>

(***************************************************************************)
(* Service accounts: the key is copied and then named in a file            *)
(***************************************************************************)
AccountFile_ConfFirst(n, given) ==
  [at |-> "open", op |-> "account", path |-> Conf(n), on |-> {Key(n), Conf(n)}, text |-> AccountText]
AccountFile(n, given) ==
  [at |-> "copy", op |-> "account", path |-> Key(n), on |-> {Key(n), Conf(n)}, text |-> given]

\* Nothing looks at what the file holds that is given.
addServiceAccount(p, n, given) == Command(p, AccountFile(n, given))

\* copy_file() throws when there is a copy already.
CopyKey(p) ==
  /\ At(p, "account", "copy")
  /\ IF files[job[p].path] = Absent
     THEN Goto(p, "write") /\ files' = [files EXCEPT ![job[p].path] = <<>>]
     ELSE End(p) /\ UNCHANGED files
  /\ UNCHANGED <<archives, wizard, second, commands, promise, muddled, gone>>

WriteAccount(p) ==
  LET j == job[p] IN
  /\ At(p, "account", "write") /\ p \notin gone
  /\ files' = [files EXCEPT ![j.path] = Written(p, job[p].text)]
  /\ Answers(p, j.path, j.text, TRUE)
  /\ Proceed(p)
  /\ UNCHANGED <<archives, wizard, second, commands, gone>>

(***************************************************************************)
(* API providers: one file, read when the command starts                   *)
(***************************************************************************)
ApiFile(d) == <<d, "api", "all">>
ApiText(d) == IF files[ApiFile(d)] = Absent THEN <<>> ELSE files[ApiFile(d)]

\* A provider that has a section gets a new one in its place, in a file that is
\* written anew; another one is appended.
addProvider(p, d, v) ==
  LET old == HasSection(ApiText(d), v) IN
  Command(p, [at |-> IF old THEN "open" ELSE "append", op |-> "provide", path |-> ApiFile(d),
              on |-> {ApiFile(d)}, provider |-> v, again |-> old,
              text |-> IF old THEN Replaced(ApiText(d), v) ELSE Section(v)])

removeProvider(p, d, v) ==
  /\ HasSection(ApiText(d), v)
  /\ Command(p, [at |-> "open", op |-> "withdraw", path |-> ApiFile(d), on |-> {ApiFile(d)},
                 provider |-> v, again |-> FALSE, text |-> Removed(ApiText(d), v)])

\* The section that is put in place of another one takes the lines of the
\* others with it, so that nothing answers for the file any more.
WriteApi(p) ==
  LET j == job[p]
      said == IF j.op = "provide" THEN promise[j.path] \cup {j.provider}
              ELSE promise[j.path] \ {j.provider}
  IN
  /\ j.op \in {"provide", "withdraw"} /\ j.at \in {"append", "write"} /\ p \notin gone
  /\ files' = [files EXCEPT ![j.path] = Written(p, job[p].text)]
  /\ promise' = [promise EXCEPT ![j.path] = said]
  /\ muddled' = IF j.again THEN muddled \cup {j.path} ELSE muddled
  /\ End(p)
  /\ UNCHANGED <<archives, wizard, second, commands, gone>>

(***************************************************************************)
(* Backup and restore                                                      *)
(***************************************************************************)
Backup == <<"backup", 0>>
PreRestore(s) == <<"pre-restore", s>>
ArchiveNames == {Backup} \cup ({"pre-restore"} \X (0..MaxSecond))

\* An archive maps the names of its files to what it holds of them; this one, of
\* a name that no file has, stands for none.
NoArchive == [n \in {<<"no", "archive">>} |-> Absent]

backupConfig(p, d) ==
  Command(p, [at |-> "tar", op |-> "backup", dir |-> d, on |-> {Backup}, to |-> Backup, todo |-> {}])

restoreConfig_Unsaved(p, d, a) ==
  /\ archives[a] \notin {NoArchive, <<>>}
  /\ Command(p, [at |-> "extract", op |-> "restore", dir |-> d,
                 on |-> InDir(d) \cup {PreRestore(second)},
                 to |-> PreRestore(second), of |-> archives[a], out |-> {}, todo |-> DOMAIN archives[a]])
restoreConfig(p, d, a) ==
  /\ archives[a] # NoArchive /\ wizard[p] = NoWizard
  /\ second' \in second..MaxSecond
  /\ Start(p, [at |-> "tar", op |-> "restore", dir |-> d,
               on |-> InDir(d) \cup {PreRestore(second')},
               to |-> PreRestore(second'), todo |-> {}, from |-> a])
  /\ UNCHANGED wizard

\* tar empties the archive and takes one file after the other.
Tar(p) ==
  LET j == job[p] IN
  /\ j.at = "tar"
  /\ archives' = [archives EXCEPT ![j.to] = <<>>]
  /\ job' = [job EXCEPT ![p].at = "save", ![p].todo = {x \in InDir(j.dir) : files[x] # Absent}]
  /\ UNCHANGED <<files, wizard, second, commands, promise, muddled, gone>>

Saved(p, path) ==
  [text |-> files[path], said |-> promise[path], muddled |-> path \in muddled \cup OthersOn(p)]

With(archive, n, entry) ==
  [m \in DOMAIN archive \cup {n} |-> IF m = n THEN entry ELSE archive[m]]

\* It takes the files it found, and may come upon one that was created since.
Save(p) ==
  /\ job[p].at = "save"
  /\ \E path \in InDir(job[p].dir) :
       /\ \/ path \in job[p].todo
          \/ files[path] # Absent /\ Relative(path) \notin DOMAIN archives[job[p].to]
       /\ archives' = [archives EXCEPT ![job[p].to] =
                         IF files[path] = Absent \/ @ = NoArchive THEN @
                         ELSE With(@, Relative(path), Saved(p, path))]
       /\ job' = [job EXCEPT ![p].todo = @ \ {path}]
  /\ UNCHANGED <<files, wizard, second, commands, promise, muddled, gone>>

\* tar fails, or is done; a restore goes on with the archive it was given.
SaveFails(p) ==
  /\ Faults /\ job[p].at = "save" /\ End(p)
  /\ UNCHANGED <<files, archives, wizard, second, commands, promise, muddled, gone>>

SaveEnds(p) ==
  LET j == job[p] IN
  /\ j.at = "save" /\ j.todo = {}
  /\ IF j.op = "backup" \/ archives[j.from] \in {NoArchive, <<>>} THEN End(p)
     ELSE job' = [job EXCEPT ![p] = [at |-> "extract", op |-> "restore", dir |-> j.dir, on |-> j.on,
                                     to |-> j.to, of |-> archives[j.from],
                                     out |-> {}, todo |-> DOMAIN archives[j.from]]]
  /\ UNCHANGED <<files, archives, wizard, second, commands, promise, muddled, gone>>

\* tar unlinks a file that is in the way of one in the archive; other files stay.
PathOf(p, n) == <<job[p].dir, n[1], n[2]>>

Extract(p) ==
  /\ job[p].at = "extract" /\ job[p].out = {}
  /\ \E n \in job[p].todo :
       /\ files' = [files EXCEPT ![PathOf(p, n)] = Absent]
       /\ muddled' = muddled \cup {PathOf(p, n)}
       /\ Unlinked(PathOf(p, n))
       /\ job' = [job EXCEPT ![p].out = {n}, ![p].todo = @ \ {n}]
  /\ UNCHANGED <<archives, wizard, second, commands, promise>>

\* Then it creates the file, unlinking one that another process made meanwhile.
Put(path, text) ==
  /\ files' = [files EXCEPT ![path] = text]
  /\ Unlinked(path)
  /\ UNCHANGED <<archives, wizard, second, commands>>

GoesOn(p) == IF job[p].todo = {} THEN End(p) ELSE job' = [job EXCEPT ![p].out = {}]

Place(p) ==
  /\ job[p].at = "extract"
  /\ \E n \in job[p].out :
       LET path == PathOf(p, n)
           saved == job[p].of[n]
       IN
       /\ Put(path, saved.text)
       /\ promise' = [promise EXCEPT ![path] = saved.said]
       /\ muddled' = IF saved.muddled \/ path \in OthersOn(p) THEN muddled ELSE muddled \ {path}
  /\ GoesOn(p)

\* It cannot create the file or write all of it, and goes on; or it is killed there.
PlaceFails(p) ==
  /\ Faults /\ job[p].at = "extract"
  /\ \E n \in job[p].out :
       LET text == job[p].of[n].text IN
       \E left \in {Absent} \cup {SubSeq(text, 1, k) : k \in {i \in 0..MaxCut : i < Len(text)}} :
         Put(PathOf(p, n), left)
  /\ GoesOn(p) \/ End(p)
  /\ UNCHANGED <<promise, muddled>>

(***************************************************************************)
(* The setup wizard                                                        *)
(***************************************************************************)
setupGlobalConfig(p, d) ==
  /\ wizard[p] = NoWizard
  /\ Start(p, Creation(<<d, "global", "all">>, GlobalText))
  /\ wizard' = [wizard EXCEPT ![p] = <<"domains", d>>] /\ UNCHANGED second

WizardAt(p, step) == job[p] = Idle /\ wizard[p][1] = step
WizardGoes(p, step) ==
  /\ wizard' = [wizard EXCEPT ![p][1] = step]
  /\ UNCHANGED <<files, archives, job, second, commands, promise, muddled, gone>>

setupDomains(p) ==
  /\ WizardAt(p, "domains")
  /\ \/ \E n \in Domains : Start(p, DomainFile(wizard[p][2], n)) /\ UNCHANGED <<wizard, second>>
     \/ WizardGoes(p, "users")

setupUsers(p) ==
  /\ WizardAt(p, "users")
  /\ \/ \E n \in Users : Start(p, UserFile(wizard[p][2], n)) /\ UNCHANGED <<wizard, second>>
     \/ WizardGoes(p, "auth")

\* What comes after it changes nothing: providers are not set up, and the
\* validation only reads.
setupAuthentication(p) ==
  /\ WizardAt(p, "auth")
  /\ \E n \in Domains : \/ Start(p, OAuth2File(n))
                       \/ \E given \in JsonTexts : Start(p, AccountFile(n, given))
  /\ wizard' = [wizard EXCEPT ![p] = NoWizard] /\ UNCHANGED second

setupEnds(p) ==
  /\ WizardAt(p, "auth")
  /\ wizard' = [wizard EXCEPT ![p] = NoWizard]
  /\ UNCHANGED <<files, archives, job, second, commands, promise, muddled, gone>>

(***************************************************************************)
(* The specification                                                       *)
(***************************************************************************)
Nothing == [path \in Paths |-> Absent]

\* What earlier commands left: a provider, some domains, and a backup of them from
\* before they were disabled, if they were.
Installed(v, flag) ==
  [path \in Paths |-> IF path \in Earlier THEN SetFlag(DomainText, flag)
                      ELSE IF path = ApiFile("etc") THEN Section(v) ELSE Absent]

Said(path, text) ==
  IF Kind(path) = "api" THEN Listed(IF text = Absent THEN <<>> ELSE text) ELSE text

BackupOf(old) ==
  [n \in {Relative(path) : path \in {x \in InDir("etc") : old[x] # Absent}} |->
     LET path == <<"etc", n[1], n[2]>> IN
     [text |-> old[path], said |-> Said(path, old[path]), muddled |-> FALSE]]

Init ==
  /\ \/ files = Nothing /\ commands = 0 /\ archives = [a \in ArchiveNames |-> NoArchive]
     \/ /\ \E v \in Providers, flag \in {On, Off} :
             /\ files = Installed(v, flag)
             /\ archives = [a \in ArchiveNames |-> IF a = Backup THEN BackupOf(Installed(v, On))
                                                  ELSE NoArchive]
        /\ commands = 1
  /\ job = [p \in Procs |-> Idle] /\ wizard = [p \in Procs |-> NoWizard]
  /\ second = 0
  /\ promise = [path \in Paths |-> Said(path, files[path])]
  /\ muddled = {} /\ gone = {}

Starts(p) ==
  \/ \E d \in DirsOf[p] :
       \/ \E n \in Domains : \/ addDomain(p, d, n) \/ enableDomain(p, d, n)
                             \/ disableDomain(p, d, n) \/ removeDomain(p, d, n)
       \/ \E n \in Users : \/ addUser(p, d, n) \/ enableUser(p, d, n)
                           \/ disableUser(p, d, n) \/ removeUser(p, d, n)
       \/ \E n \in Templates : removeTemplate(p, d, n)
       \/ \E n \in Patterns : removeAddressTemplate(p, d, n)
       \/ \E v \in Providers : addProvider(p, d, v) \/ removeProvider(p, d, v)
       \/ backupConfig(p, d) \/ \E a \in ArchiveNames : restoreConfig(p, d, a)
       \/ setupGlobalConfig(p, d)
  \/ \E n \in Templates : createTemplate(p, n)
  \/ \E n \in Patterns : createAddressTemplate(p, n)
  \/ \E n \in Domains : \/ setupOAuth2(p, n)
                        \/ \E given \in JsonTexts : addServiceAccount(p, n, given)

Steps(p) ==
  \/ Open(p) \/ OpenFails(p) \/ WriteFails(p) \/ WriteLost(p)
  \/ WriteNew(p) \/ ReadLines(p) \/ WriteFlag(p) \/ Unlink(p)
  \/ CopyKey(p) \/ WriteAccount(p) \/ WriteApi(p)
  \/ Tar(p) \/ Save(p) \/ SaveFails(p) \/ SaveEnds(p)
  \/ Extract(p) \/ Place(p) \/ PlaceFails(p)
  \/ setupDomains(p) \/ setupUsers(p) \/ setupAuthentication(p) \/ setupEnds(p)

Next == \E p \in Procs : Starts(p) \/ Steps(p) \/ Crash(p)

Spec == Init /\ [][Next]_vars

(***************************************************************************)
(* Properties                                                              *)
(***************************************************************************)
InUse == UNION {job[p].on : p \in Procs}
Settled == Paths \ (muddled \cup InUse)

\* Whatever commands run at once on other files, wherever a process is killed
\* and whatever was restored, a file holds what the last command that was done
\* with it made of it, as long as no two commands were on the file together, none
\* was killed while it wrote it, and no open or write of it failed.
LastCommandHolds == \A path \in Settled : Kind(path) # "api" => files[path] = promise[path]

\* The validation finds no error in a file of which that is true, except in the
\* file of a service account, which it takes for a domain, and in the copy of a
\* file that was given as a key and is none.
ErrorsExplained ==
  \A d \in {"etc", "home"} : \A path \in ConfigErrors(d) \cap Settled :
    \/ Kind(path) = "account"
    \/ Kind(path) = "json" /\ ~(validateServiceAccountConfig \subseteq Range(promise[path]))

\* A file that names the key of a service account is never there without the key,
\* however far the command that adds it comes, unless a restore that was to replace
\* the key has not, or two commands were on the key together.
AccountKeyThere ==
  \A n \in Domains : \A d \in {"etc", "home"} :
    LET text == files[<<d, "account", n>>] IN
    text # Absent /\ Contains(text, "service_account_file")
      => files[Key(n)] # Absent \/ Key(n) \in muddled

\* Each provider that was added, and not removed since, is listed and shown with
\* its own settings, and no other is, as long as none was added again.
SectionsTrue ==
  \A d \in {"etc", "home"} : ApiFile(d) \in Settled =>
    /\ Listed(ApiText(d)) = promise[ApiFile(d)]
    /\ \A v \in Providers : Shown(ApiText(d), v) = {v} \cap promise[ApiFile(d)]

\* A restore overwrites no text that is not in the archive it made before, unless
\* another one made its own of the same name meanwhile, or a command was on the
\* file together with it.
ExtractionIsSaved ==
  [][\A p \in Procs : job[p].at = "extract" /\ job[p].to \notin muddled =>
       \A path \in Paths \ (muddled \cup OthersOn(p)) :
         files[path] # Absent /\ files'[path] # files[path] =>
           LET saved == archives[job[p].to] IN
           /\ saved # NoArchive
           /\ Relative(path) \in DOMAIN saved /\ saved[Relative(path)].text = files[path]]_vars

=============================================================================
