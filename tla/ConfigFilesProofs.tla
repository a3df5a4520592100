--------------------------- MODULE ConfigFilesProofs ---------------------------
(***************************************************************************)
(* Proofs about ConfigFiles, for any processes, names, earlier files and   *)
(* faults: what a file holds that commands have written one at a time, what *)
(* the validation finds in it, that a named key is there, what a restore   *)
(* has saved, and which providers api-config.conf lists and shows.         *)
(***************************************************************************)
EXTENDS ConfigFiles, SequenceTheorems, TLAPS

(***************************************************************************)
(* What a file, an archive and a command may hold                          *)
(***************************************************************************)
\* The whole text of each kind of file.
Full(kind) ==
  CASE kind = "domain"   -> DomainText
    [] kind = "user"     -> UserText
    [] kind = "oauth2"   -> OAuth2Text
    [] kind = "account"  -> AccountText
    [] kind = "json"     -> JsonText
    [] kind = "template" -> TemplateText
    [] kind = "address"  -> AddressText
    [] OTHER             -> GlobalText
PlainKinds == {"domain", "user", "oauth2", "account", "json", "template", "address", "global"}
Plain == {path \in Paths : Kind(path) # "api"}

\* Nothing is longer than a whole text, so a command that writes one anew leaves
\* no rest of what another one wrote meanwhile.
TextsOf(kind) == {t \in Seq(TextLines) : Len(t) <= Len(Full(kind))}

SaidOf(kind) ==
  {t \in Seq(TextLines) : kind \in {"account", "json"} \/ Required(kind) \subseteq Range(t)}

\* The key of a service account is there, or it is not certain what became of it.
KeyThere(n) == files[Key(n)] # Absent \/ Key(n) \in muddled

NamesKey(text) == text # Absent /\ Contains(text, "service_account_file")

EntryOK(n, e) ==
  /\ n \in Names
  /\ n[1] # "api" =>
       /\ e.text \in TextsOf(n[1]) /\ e.said \in SaidOf(n[1]) \cup {Absent}
       /\ ~e.muddled => e.text = e.said
  /\ n[1] = "account" /\ NamesKey(e.text) => KeyThere(n[2])

ArchiveOK(a) == a # NoArchive => \A n \in DOMAIN a : EntryOK(n, a[n])

Creates(j) ==
  /\ j.op = "create" /\ j.at \in {"open", "write"}
  /\ DOMAIN j = {"at", "op", "path", "on", "text"}
  /\ j.path \in Plain /\ Kind(j.path) \notin {"account", "json"}
  /\ j.on = {j.path} /\ j.text = Full(Kind(j.path))

Flags(j) ==
  /\ j.op = "flag" /\ j.at \in {"read", "open", "write"}
  /\ j.path \in Plain /\ Kind(j.path) # "json" /\ j.on = {j.path} /\ j.flag \in {On, Off}
  /\ IF j.at = "read" THEN DOMAIN j = {"at", "op", "path", "on", "flag"}
     ELSE /\ DOMAIN j = {"at", "op", "path", "on", "flag", "text"}
          /\ j.text \in TextsOf(Kind(j.path))
          /\ Kind(j.path) = "account" /\ NamesKey(j.text) => KeyThere(j.path[3])
  /\ j.path \notin muddled =>
       /\ promise[j.path] # Absent
       /\ j.at # "read" => j.text = SetFlag(promise[j.path], j.flag)
       /\ j.at = "write" => files[j.path] = <<>>

Removes(j) ==
  /\ j.op = "remove" /\ j.at = "unlink"
  /\ DOMAIN j = {"at", "op", "path", "victim", "on"}
  /\ j.path \in Plain /\ j.victim \in Plain /\ Kind(j.victim) # "json"
  /\ j.on = {j.path, j.victim}

Accounts(j) ==
  /\ j.op = "account"
  /\ DOMAIN j = {"at", "op", "path", "on", "text"}
  /\ \E n \in Domains :
       /\ j.on = {Key(n), Conf(n)}
       /\ \/ j.path = Key(n) /\ j.text \in JsonTexts /\ j.at \in {"copy", "write"}
          \/ j.path = Conf(n) /\ j.text = AccountText /\ j.at \in {"open", "write"}
               /\ KeyThere(n)

Apis(j) ==
  /\ j.op \in {"provide", "withdraw"} /\ j.at \in {"open", "append", "write"}
  /\ DOMAIN j = {"at", "op", "path", "on", "text", "provider", "again"}
  /\ j.path \in Paths \ Plain /\ j.on = {j.path}

Backs(j) ==
  /\ j.op = "backup" /\ j.to = Backup /\ j.on = {j.to} /\ j.dir \in {"etc", "home"}
  /\ DOMAIN j = {"at", "op", "dir", "on", "to", "todo"} /\ j.at \in {"tar", "save"}
  /\ j.todo \subseteq InDir(j.dir)

Restores(j) ==
  /\ j.op = "restore" /\ j.dir \in {"etc", "home"} /\ j.to \in ArchiveNames
  /\ j.on = InDir(j.dir) \cup {j.to}
  /\ \/ /\ j.at \in {"tar", "save"} /\ DOMAIN j = {"at", "op", "dir", "on", "to", "from", "todo"}
        /\ j.todo \subseteq InDir(j.dir) /\ j.from \in ArchiveNames
     \/ /\ j.at = "extract" /\ DOMAIN j = {"at", "op", "dir", "on", "to", "of", "out", "todo"}
        /\ j.of # NoArchive /\ ArchiveOK(j.of) /\ j.todo \cup j.out \subseteq DOMAIN j.of
        /\ j.todo \cap j.out = {}
        /\ \A n \in j.out : <<j.dir, n[1], n[2]>> \in muddled

JobOK(j) ==
  j = Idle \/ Creates(j) \/ Flags(j) \/ Removes(j) \/ Accounts(j) \/ Apis(j)
    \/ Backs(j) \/ Restores(j)

WizardOK ==
  /\ wizard \in [Procs -> {"none", "domains", "users", "auth"} \X {"etc", "home"}]
  /\ second \in Nat

\* What a command may write: files and archives.
Writable == Paths \cup ArchiveNames

TypeOK ==
  /\ DOMAIN files = Paths /\ DOMAIN promise = Paths /\ muddled \subseteq Writable
  /\ DOMAIN archives = ArchiveNames /\ DOMAIN job = Procs
  /\ WizardOK

JobInv == \A p \in Procs : JobOK(job[p])
ArchiveInv == \A a \in ArchiveNames : ArchiveOK(archives[a])

\* Two commands on a file have muddled it.
ShareInv == \A p, q \in Procs : p # q => job[p].on \cap job[q].on \subseteq muddled

\* A file that is not muddled is what was said of it, but while it is written;
\* one that names a key comes after it.
Writing(p, path) == job[p].at = "write" /\ job[p].path = path
PathOK(path) ==
  /\ files[path] \in TextsOf(Kind(path)) \cup {Absent}
  /\ promise[path] \in SaidOf(Kind(path)) \cup {Absent}
  /\ path \notin muddled => files[path] = promise[path] \/ \E p \in Procs : Writing(p, path)
  /\ Kind(path) = "account" /\ NamesKey(files[path]) => KeyThere(path[3])
PathInv == \A path \in Plain : PathOK(path)

\* What a restore has yet to overwrite is in its archive, unless it has not come to
\* it or others are on the file or the archive with it.
SavedAs(archive, path, text) ==
  Relative(path) \in DOMAIN archive /\ archive[Relative(path)].text = text
Saves(j) == j.op = "restore" /\ j.at \in {"save", "extract"}
Kept(p) ==
  LET j == job[p] IN
  Saves(j) /\ j.to \notin muddled =>
    /\ archives[j.to] # NoArchive
    /\ \A path \in InDir(j.dir) \ (muddled \cup OthersOn(p)) :
         files[path] # Absent =>
           \/ j.at = "save" /\ path \in j.todo
           \/ j.at = "extract" /\ Relative(path) \notin j.todo
           \/ SavedAs(archives[j.to], path, files[path])
KeptInv == \A p \in Procs : Kept(p)

\* The inductive invariant.
IInv == TypeOK /\ JobInv /\ ArchiveInv /\ ShareInv /\ PathInv /\ KeptInv

(***************************************************************************)
(* Texts                                                                   *)
(***************************************************************************)
\* Every whole text is one of its kind, and an emptied file names no key.
LEMMA FullTexts ==
  /\ \A kind \in PlainKinds : Full(kind) \in TextsOf(kind) /\ Full(kind) \in SaidOf(kind)
  /\ \A kind \in PlainKinds : <<>> \in TextsOf(kind)
  /\ \A text \in JsonTexts : /\ text \in TextsOf("json") /\ text \in SaidOf("json")
                             /\ text \in Seq(TextLines) /\ Len(text) = Len(Full("json"))
  /\ ~NamesKey(<<>>) /\ ~NamesKey(Absent)
<1> USE DEF TextLines, On, Off
<1>1. /\ DomainText \in Seq(TextLines) /\ UserText \in Seq(TextLines)
      /\ OAuth2Text \in Seq(TextLines) /\ AccountText \in Seq(TextLines)
  BY DEF DomainText, UserText, OAuth2Text, AccountText
<1>2. /\ \A text \in JsonTexts : text \in Seq(TextLines) /\ Len(text) = 2
      /\ JsonText \in JsonTexts /\ TemplateText \in Seq(TextLines)
      /\ AddressText \in Seq(TextLines) /\ GlobalText \in Seq(TextLines)
  BY DEF JsonTexts, JsonText, NoKeyText, TemplateText, AddressText, GlobalText
<1>3. /\ validateDomainConfig \subseteq Range(DomainText)
      /\ validateUserConfig \subseteq Range(UserText)
      /\ validateOAuth2Config \subseteq Range(OAuth2Text)
      /\ validateTemplate \subseteq Range(TemplateText)
  <2>1. validateDomainConfig \subseteq Range(DomainText)
    <3>1. DomainText[2] = "smtp_server" /\ DomainText[3] = "smtp_port" /\ {2, 3} \subseteq DOMAIN DomainText
      BY DEF DomainText
    <3> QED BY <3>1 DEF validateDomainConfig, Range
  <2>2. validateUserConfig \subseteq Range(UserText)
    <3>1. UserText[2] = "domain" /\ 2 \in DOMAIN UserText
      BY DEF UserText
    <3> QED BY <3>1 DEF validateUserConfig, Range
  <2>3. validateOAuth2Config \subseteq Range(OAuth2Text)
    <3>1. /\ OAuth2Text[1] = "client_id" /\ OAuth2Text[2] = "client_secret"
          /\ {1, 2} \subseteq DOMAIN OAuth2Text
      BY DEF OAuth2Text
    <3> QED BY <3>1 DEF validateOAuth2Config, Range
  <2>5. validateTemplate \subseteq Range(TemplateText)
    <3>1. TemplateText[1] = "subject" /\ TemplateText[2] = "body" /\ {1, 2} \subseteq DOMAIN TemplateText
      BY DEF TemplateText
    <3> QED BY <3>1 DEF validateTemplate, Range
  <2> QED BY <2>1, <2>2, <2>3, <2>5
<1> USE DEF PlainKinds
<1>4. ASSUME NEW kind \in PlainKinds
      PROVE  /\ Full(kind) \in Seq(TextLines) /\ Len(Full(kind)) \in Nat
             /\ kind \in {"account", "json"} \/ Required(kind) \subseteq Range(Full(kind))
  <2>1. Full(kind) \in Seq(TextLines)
    BY <1>1, <1>2 DEF Full
  <2>2. Len(Full(kind)) \in Nat
    BY <2>1, LenProperties
  <2>3. kind \in {"account", "json"} \/ Required(kind) \subseteq Range(Full(kind))
    BY <1>3 DEF Required, Full
  <2> QED BY <2>1, <2>2, <2>3
<1>5. <<>> \in Seq(TextLines) /\ Len(<<>>) = 0
  OBVIOUS
<1>6. ~NamesKey(<<>>) /\ ~NamesKey(Absent)
  BY <1>5 DEF NamesKey, Contains
<1> HIDE DEF TextLines, On, Off, PlainKinds
<1>7. \A text \in JsonTexts : /\ text \in TextsOf("json") /\ text \in SaidOf("json")
                             /\ text \in Seq(TextLines) /\ Len(text) = Len(Full("json"))
  <2>1. Full("json") = JsonText
    BY DEF Full
  <2> QED
    BY <1>2, <2>1 DEF TextsOf, SaidOf
<1> QED
  BY <1>4, <1>5, <1>6, <1>7 DEF TextsOf, SaidOf

\* Laying a text over one that is no longer leaves nothing of it.
LEMMA OverlayWhole ==
  ASSUME NEW text \in Seq(TextLines), NEW old \in Seq(TextLines), Len(old) <= Len(text)
  PROVE  Overlay(text, old) = text
<1>1. SubSeq(old, Len(text) + 1, Len(old)) = <<>>
  BY DEF Overlay
<1> QED
  BY <1>1 DEF Overlay

\* What lies over another text is as long as one of them, and has no other lines.
LEMMA OverlayPart ==
  ASSUME NEW text \in Seq(TextLines), NEW old \in Seq(TextLines), NEW k \in Nat,
         k <= Len(text)
  PROVE  LET new == Overlay(SubSeq(text, 1, k), old) IN
         /\ new \in Seq(TextLines)
         /\ Len(new) <= Len(text) \/ Len(new) <= Len(old)
         /\ \A e : Contains(new, e) => Contains(text, e) \/ Contains(old, e)
<1> DEFINE part == SubSeq(text, 1, k)
           rest == SubSeq(old, Len(part) + 1, Len(old))
<1>1. part \in Seq(TextLines) /\ Len(part) = k /\ \A i \in 1..k : part[i] = text[i]
  OBVIOUS
<1>2. rest \in Seq(TextLines) /\ Len(rest) = IF Len(old) > k THEN Len(old) - k ELSE 0
  BY <1>1
<1>3. \A i \in 1..Len(rest) : rest[i] = old[k + i]
  BY <1>1, <1>2
<1> HIDE DEF part, rest
<1>4. part \o rest \in Seq(TextLines) /\ Len(part \o rest) = k + Len(rest)
  BY ZenonT(30), <1>1, <1>2, ConcatProperties
<1>5. \A i \in 1..(k + Len(rest)) :
        (part \o rest)[i] = IF i <= k THEN part[i] ELSE rest[i - k]
  BY <1>1, <1>2
<1>6. ASSUME NEW e, Contains(part \o rest, e) PROVE Contains(text, e) \/ Contains(old, e)
  <2>1. PICK i \in 1..(k + Len(rest)) : (part \o rest)[i] = e
    BY <1>6, <1>4 DEF Contains
  <2>2. CASE i <= k
    <3>1. i \in 1..Len(text) /\ text[i] = e
      BY <2>1, <2>2, <1>1, <1>5
    <3> QED BY <3>1 DEF Contains
  <2>3. CASE i > k
    <3>1. i - k \in 1..Len(rest) /\ k + (i - k) = i /\ i \in 1..Len(old)
      BY <2>1, <2>3, <1>2
    <3>2. rest[i - k] = e
      <4>1. ~(i <= k)
        BY <2>3, <1>2
      <4>2. (part \o rest)[i] = rest[i - k]
        BY <4>1, <1>5
      <4> QED BY <4>2, <2>1
    <3>3. i - k \in 1..Len(rest)
      BY <3>1
    <3>4. old[k + (i - k)] = e
      BY <3>2, <3>3, <1>3
    <3>5. old[i] = e
      BY <3>1, <3>4
    <3> QED BY <3>1, <3>5 DEF Contains
  <2> QED BY <2>1, <2>2, <2>3
<1>7. Len(part \o rest) <= Len(text) \/ Len(part \o rest) <= Len(old)
  BY <1>2, <1>4
<1>8. Overlay(SubSeq(text, 1, k), old) = part \o rest
  BY DEF Overlay, part, rest
<1> QED
  BY <1>4, <1>6, <1>7, <1>8

\* Setting a flag changes no other line.
LEMMA SetFlagKeeps ==
  ASSUME NEW text \in Seq(TextLines), NEW flag \in {On, Off}
  PROVE  LET new == SetFlag(text, flag) IN
         /\ new \in Seq(TextLines) /\ Len(new) = Len(text)
         /\ \A kind : text \in SaidOf(kind) => new \in SaidOf(kind)
         /\ NamesKey(new) => NamesKey(text)
<1> DEFINE new == SetFlag(text, flag)
<1>1. /\ DOMAIN new = 1..Len(text) /\ new \in Seq(TextLines) /\ Len(new) = Len(text)
      /\ \A i \in 1..Len(text) : new[i] = IF text[i] \in {On, Off} THEN flag ELSE text[i]
  <2>1. DOMAIN text = 1..Len(text) /\ \A i \in 1..Len(text) : text[i] \in TextLines
    OBVIOUS
  <2>2. flag \in TextLines
    BY DEF On, Off, TextLines
  <2>3. new = [i \in 1..Len(text) |-> IF text[i] \in {On, Off} THEN flag ELSE text[i]]
    BY <2>1 DEF SetFlag
  <2>4. new \in [1..Len(text) -> TextLines]
    BY <2>1, <2>2, <2>3
  <2>5. new \in Seq(TextLines)
    BY <2>4
  <2>6. Len(new) = Len(text)
    BY <2>4, <2>5
  <2> QED BY <2>3, <2>5, <2>6
<1>2. ASSUME NEW e \in Range(text), e \notin {On, Off} PROVE e \in Range(new)
  <2>1. PICK i \in 1..Len(text) : text[i] = e
    BY <1>2 DEF Range
  <2>2. i \in DOMAIN new /\ new[i] = e
    BY <2>1, <1>1, <1>2
  <2> QED BY <2>2 DEF Range
<1>3. \A kind : Required(kind) \cap {On, Off} = {}
  BY DEF Required, On, Off, validateDomainConfig, validateUserConfig, validateOAuth2Config,
         validateServiceAccountConfig, validateTemplate
<1>4. ASSUME NEW kind, text \in SaidOf(kind) PROVE new \in SaidOf(kind)
  BY <1>1, <1>2, <1>3, <1>4 DEF SaidOf
<1>5. ASSUME NamesKey(new) PROVE NamesKey(text)
  <2>1. PICK i \in 1..Len(new) : new[i] = "service_account_file"
    BY <1>5 DEF NamesKey, Contains
  <2>2. i \in 1..Len(text) /\ text[i] = "service_account_file"
    BY <2>1, <1>1 DEF On, Off
  <2>3. text # Absent
    BY AbsentAssumption DEF AbsentAssumption
  <2> QED BY <2>2, <2>3 DEF NamesKey, Contains
<1> QED
  BY <1>1, <1>4, <1>5

(***************************************************************************)
(* Paths                                                                   *)
(***************************************************************************)
\* A name is a kind and what it is of.
LEMMA NameFacts ==
  ASSUME NEW n \in Names
  PROVE  /\ n = <<n[1], n[2]>> /\ n[1] \in PlainKinds \cup {"api"}
         /\ n[1] \in {"account", "json"} => n[2] \in Domains
  BY DEF Names, PlainKinds

\* The path of a name in a directory.
LEMMA PathMade ==
  ASSUME NEW d \in {"etc", "home"}, NEW n \in Names
  PROVE  LET path == <<d, n[1], n[2]>> IN
         /\ path \in InDir(d) /\ path \in Paths /\ Relative(path) = n /\ Kind(path) = n[1]
         /\ path[3] = n[2]
<1>1. n = <<n[1], n[2]>>
  BY NameFacts
<1> QED
  BY <1>1 DEF Paths, InDir, Relative, Kind

\* A path is of one of the directories and of a name.
LEMMA PathFacts ==
  ASSUME NEW path \in Paths
  PROVE  /\ path[1] \in {"etc", "home"} /\ Relative(path) \in Names
         /\ path = <<path[1], Relative(path)[1], Relative(path)[2]>>
         /\ Relative(path)[1] = Kind(path) /\ Relative(path)[2] = path[3]
         /\ Kind(path) \in PlainKinds \cup {"api"}
         /\ Kind(path) \in {"account", "json"} => path[3] \in Domains
<1>1. PICK d \in {"etc", "home"}, n \in Names : path = <<d, n[1], n[2]>>
  BY DEF Paths
<1>2. path[1] = d /\ path[2] = n[1] /\ path[3] = n[2]
  BY <1>1
<1>3. Relative(path) = <<n[1], n[2]>>
  BY <1>2 DEF Relative
<1>4. n = <<n[1], n[2]>> /\ n[1] \in PlainKinds \cup {"api"}
      /\ (n[1] \in {"account", "json"} => n[2] \in Domains)
  BY NameFacts
<1> QED
  BY <1>1, <1>2, <1>3, <1>4 DEF Kind

\* A directory has one file of each name.
LEMMA SameRelative ==
  ASSUME NEW d, NEW path \in InDir(d), NEW x \in InDir(d), Relative(x) = Relative(path)
  PROVE  x = path
<1>1. path \in Paths /\ x \in Paths /\ path[1] = d /\ x[1] = d
  BY DEF InDir
<1> QED
  BY <1>1, PathFacts

\* What has an entry is an archive, and so is an empty one.
LEMMA ArchiveThere ==
  ASSUME NEW a, NEW n \in Names, n \in DOMAIN a
  PROVE  a # NoArchive
<1>1. DOMAIN NoArchive = {<<"no", "archive">>}
  BY DEF NoArchive
<1>2. n[1] # "no"
  BY NameFacts DEF PlainKinds
<1> QED
  BY <1>1, <1>2

LEMMA EmptyThere == <<>> # NoArchive
<1>1. DOMAIN NoArchive = {<<"no", "archive">>}
  BY DEF NoArchive
<1>2. DOMAIN <<>> = {}
  OBVIOUS
<1> QED
  BY <1>1, <1>2

\* An archive is not one of the files.
LEMMA NoPath ==
  ASSUME NEW a \in ArchiveNames
  PROVE  a \notin Paths
<1>1. a[1] \in {"backup", "pre-restore"}
  BY DEF ArchiveNames, Backup
<1> QED
  BY <1>1, PathFacts

LEMMA WithThere ==
  ASSUME NEW a, NEW n \in Names, NEW e
  PROVE  /\ DOMAIN With(a, n, e) = DOMAIN a \cup {n} /\ With(a, n, e)[n] = e
         /\ \A m \in DOMAIN a \ {n} : With(a, n, e)[m] = a[m]
         /\ With(a, n, e) # NoArchive
<1>1. /\ DOMAIN With(a, n, e) = DOMAIN a \cup {n} /\ With(a, n, e)[n] = e
      /\ \A m \in DOMAIN a \ {n} : With(a, n, e)[m] = a[m]
  BY DEF With
<1> QED
  BY <1>1, ArchiveThere

\* The files of a service account.
LEMMA KeyPath ==
  ASSUME NEW n \in Domains
  PROVE  /\ Key(n) \in Plain /\ Kind(Key(n)) = "json" /\ Key(n)[3] = n
         /\ Conf(n) \in Plain /\ Kind(Conf(n)) = "account" /\ Conf(n)[3] = n
<1>1. <<"json", n>> \in Names /\ <<"account", n>> \in Names
  BY DEF Names
<1>2. Key(n) \in Paths /\ Conf(n) \in Paths
  BY <1>1, PathMade DEF Key, Conf
<1> QED
  BY <1>2 DEF Key, Conf, Plain, Kind

(***************************************************************************)
(* A step of one command                                                   *)
(***************************************************************************)
\* What a command may write has a name, and what it writes is among it.
LEMMA JobFacts ==
  ASSUME NEW p \in Procs, JobInv
  PROVE  /\ job[p].on \subseteq Writable
         /\ job[p].at = "write" => job[p].path \in job[p].on
<1>1. JobOK(job[p])
  BY DEF JobInv
<1>2. CASE job[p] = Idle
  BY <1>2 DEF Idle
<1>3. CASE Creates(job[p])
  BY <1>3 DEF Creates, Plain, Writable
<1>4. CASE Flags(job[p])
  BY <1>4 DEF Flags, Plain, Writable
<1>5. CASE Removes(job[p])
  BY <1>5 DEF Removes, Plain, Writable
<1>6. CASE Accounts(job[p])
  BY <1>6, KeyPath DEF Accounts, Plain, Writable
<1>7. CASE Apis(job[p])
  BY <1>7 DEF Apis, Writable
<1>8. CASE Backs(job[p])
  BY <1>8 DEF Backs, Writable, Backup, ArchiveNames
<1>9. CASE Restores(job[p])
  BY <1>9 DEF Restores, InDir, Writable
<1> QED
  BY <1>1, <1>2, <1>3, <1>4, <1>5, <1>6, <1>7, <1>8, <1>9 DEF JobOK

\* What a command does says what its job holds.
LEMMA JobKinds ==
  ASSUME IInv, NEW p \in Procs
  PROVE  /\ job[p].op = "create"  => Creates(job[p])
         /\ job[p].op = "flag"    => Flags(job[p])
         /\ job[p].op = "remove"  => Removes(job[p])
         /\ job[p].op = "account" => Accounts(job[p])
         /\ job[p].op \in {"provide", "withdraw"} => Apis(job[p])
         /\ job[p].op = "backup"  => Backs(job[p])
         /\ job[p].op = "restore" => Restores(job[p])
         /\ job[p].op \in {"none", "create", "flag", "remove", "account", "provide", "withdraw",
                           "backup", "restore"}
         /\ job[p].op = "none" => job[p] = Idle
<1>1. JobOK(job[p])
  BY DEF IInv, JobInv
<1> QED
  BY SMTT(30), <1>1 DEF JobOK, Idle, Creates, Flags, Removes, Accounts, Apis, Backs, Restores

\* The key of a service account stays where it is, or it is muddled.
KeyKept == \A n \in Domains : KeyThere(n) => KeyThere(n)'

\* What a step of p leaves alone: the files outside X, the jobs of the others,
\* and the files that the others have muddled.
Frame(p, X) ==
  /\ X \subseteq job[p].on
  /\ TypeOK' /\ KeyKept
  /\ muddled \ muddled' \subseteq X \ OthersOn(p)
  /\ \A q \in Procs \ {p} : job'[q] = job[q]
  /\ \A path \in Paths \ X : files'[path] = files[path] /\ promise'[path] = promise[path]
  /\ \A a \in ArchiveNames \ job[p].on : archives'[a] = archives[a]
  /\ \/ job'[p].on \subseteq job[p].on
     \/ job'[p].on \cap OthersOn(p) \subseteq muddled'
  /\ \A path \in Plain \ X : Writing(p, path) => Writing(p, path)' \/ path \in muddled'
  /\ UNCHANGED archives \/ ArchiveInv'

\* What is in the archives stays in order while no key goes.
LEMMA ArchiveKept ==
  ASSUME IInv, NEW p \in Procs, NEW X, Frame(p, X)
  PROVE  ArchiveInv'
<1>1. CASE UNCHANGED archives
  <2>1. ASSUME NEW a \in ArchiveNames, NEW n \in DOMAIN archives[a], archives[a] # NoArchive
        PROVE  EntryOK(n, archives[a][n])'
    <3>1. EntryOK(n, archives[a][n])
      BY <2>1 DEF IInv, ArchiveInv, ArchiveOK
    <3>2. n[1] = "account" => n[2] \in Domains
      BY <3>1, NameFacts DEF EntryOK
    <3> QED
      BY <1>1, <3>1, <3>2 DEF EntryOK, Frame, KeyKept
  <2> QED
    BY <1>1, <2>1 DEF ArchiveInv, ArchiveOK
<1> QED
  BY <1>1 DEF Frame

\* No command comes to share a file that is not muddled.
LEMMA ShareKept ==
  ASSUME IInv, NEW p \in Procs, NEW X, Frame(p, X)
  PROVE  ShareInv'
<1>1. ASSUME NEW q \in Procs, q # p
      PROVE  job'[p].on \cap job[q].on \subseteq muddled'
  <2>1. job[q].on \subseteq OthersOn(p)
    BY <1>1 DEF OthersOn
  <2>2. job[p].on \cap job[q].on \subseteq muddled
    BY <1>1 DEF IInv, ShareInv
  <2> QED
    BY <2>1, <2>2 DEF Frame
<1>2. ASSUME NEW q \in Procs, NEW r \in Procs, q # p, r # p, q # r
      PROVE  job[q].on \cap job[r].on \subseteq muddled'
  <2>1. job[q].on \subseteq OthersOn(p)
    BY <1>2 DEF OthersOn
  <2>2. job[q].on \cap job[r].on \subseteq muddled
    BY <1>2 DEF IInv, ShareInv
  <2> QED
    BY <2>1, <2>2 DEF Frame
<1>3. \A q \in Procs \ {p} : job'[q] = job[q]
  BY DEF Frame
<1> QED
  BY <1>1, <1>2, <1>3 DEF ShareInv

\* What the others see of p does not grow but by what p has muddled.
LEMMA OthersOnKept ==
  ASSUME IInv, NEW p \in Procs, NEW X, Frame(p, X), NEW q \in Procs, q # p, NEW path,
         path \in job[q].on, path \notin muddled', path \notin OthersOn(q)'
  PROVE  path \notin muddled /\ path \notin OthersOn(q) /\ path \notin X
<1>1. path \in OthersOn(p)
  BY DEF OthersOn
<1>2. path \notin muddled
  BY <1>1 DEF Frame
<1>3. path \notin job[p].on /\ path \notin X
  BY <1>2 DEF IInv, ShareInv, Frame
<1>4. ASSUME NEW r \in Procs, r # q, path \in job[r].on PROVE FALSE
  <2>1. r # p
    BY <1>3, <1>4
  <2>2. path \in job'[r].on
    BY <1>4, <2>1 DEF Frame
  <2> QED
    BY <1>4, <2>2 DEF OthersOn
<1> QED
  BY <1>2, <1>3, <1>4 DEF OthersOn

\* A step keeps what the restores of the others have yet to overwrite saved,
LEMMA KeptKept ==
  ASSUME IInv, NEW p \in Procs, NEW X, Frame(p, X), NEW q \in Procs, q # p
  PROVE  Kept(q)'
<1>1. Kept(q) /\ job'[q] = job[q]
  BY DEF IInv, KeptInv, Frame
<1> SUFFICES ASSUME Saves(job[q]), job[q].to \notin muddled'
             PROVE  Kept(q)'
  BY <1>1 DEF Kept
<1>2. Restores(job[q])
  BY JobKinds DEF Saves
<1>3. /\ job[q].to \in ArchiveNames /\ job[q].to \in job[q].on /\ InDir(job[q].dir) \subseteq job[q].on
      /\ InDir(job[q].dir) \subseteq Paths
  BY <1>2 DEF Restores, InDir
<1>4. job[q].to \notin muddled /\ job[q].to \notin job[p].on
  <2>1. job[q].to \in OthersOn(p)
    BY <1>3 DEF OthersOn
  <2>2. job[q].to \notin muddled
    BY <2>1 DEF Frame
  <2> QED
    BY <1>3, <2>2 DEF IInv, ShareInv
<1>5. archives'[job[q].to] = archives[job[q].to] /\ archives[job[q].to] # NoArchive
  BY <1>1, <1>3, <1>4 DEF Frame, Kept
<1>6. ASSUME NEW path \in InDir(job[q].dir), path \notin muddled', path \notin OthersOn(q)'
      PROVE  path \notin muddled /\ path \notin OthersOn(q) /\ files'[path] = files[path]
  <2>1. path \notin muddled /\ path \notin OthersOn(q) /\ path \notin X
    BY <1>3, <1>6, OthersOnKept
  <2> QED
    BY <1>3, <2>1 DEF Frame
<1> QED
  BY <1>1, <1>4, <1>5, <1>6 DEF Kept

\* and their jobs what they are.
LEMMA OthersKept ==
  ASSUME IInv, NEW p \in Procs, NEW X, Frame(p, X), NEW q \in Procs, q # p
  PROVE  JobOK(job[q])'
<1>1. JobOK(job[q]) /\ job'[q] = job[q]
  BY DEF IInv, JobInv, Frame
<1>2. job[q].on \subseteq OthersOn(p) /\ job[q].on \cap job[p].on \subseteq muddled
  BY DEF OthersOn, IInv, ShareInv
<1>3. CASE Flags(job[q])
  <2>1. job[q].path \in Plain /\ job[q].path \in job[q].on
    BY <1>3 DEF Flags
  <2>2. job[q].path \notin muddled' => job[q].path \notin muddled /\ job[q].path \notin X
    BY <1>2, <2>1 DEF Frame
  <2>3. job[q].path \notin muddled' =>
          /\ files'[job[q].path] = files[job[q].path]
          /\ promise'[job[q].path] = promise[job[q].path]
    BY <2>1, <2>2 DEF Frame, Plain
  <2>4. Kind(job[q].path) = "account" => job[q].path[3] \in Domains
    BY <2>1, PathFacts DEF Plain
  <2>5. Kind(job[q].path) = "account" /\ KeyThere(job[q].path[3])
          => KeyThere(job[q].path[3])'
    BY <2>4 DEF Frame, KeyKept
  <2>6. Flags(job[q])'
    BY <1>1, <1>3, <2>2, <2>3, <2>5 DEF Flags
  <2> QED
    BY <2>6 DEF JobOK
<1>4. CASE Accounts(job[q])
  <2>1. Accounts(job[q])'
    BY <1>1, <1>4 DEF Accounts, Frame, KeyKept
  <2> QED
    BY <2>1 DEF JobOK
<1>5. CASE Restores(job[q])
  <2>1. ASSUME ArchiveOK(job[q].of) PROVE ArchiveOK(job[q].of)'
    <3>1. ASSUME NEW n \in DOMAIN job[q].of, job[q].of # NoArchive
          PROVE  EntryOK(n, job[q].of[n])'
      <4>1. EntryOK(n, job[q].of[n])
        BY <2>1, <3>1 DEF ArchiveOK
      <4>2. n[1] = "account" => n[2] \in Domains
        BY <4>1, NameFacts DEF EntryOK
      <4> QED
        BY <1>1, <4>1, <4>2 DEF EntryOK, Frame, KeyKept
    <3> QED
      BY <1>1, <3>1 DEF ArchiveOK
  <2>2. ASSUME job[q].at = "extract", NEW n \in job[q].out
        PROVE  <<job[q].dir, n[1], n[2]>> \in muddled'
    <3>1. PICK d \in {"etc", "home"} : d = job[q].dir
      BY <1>5 DEF Restores
    <3>2. n \in Names
      BY <1>5, <2>2 DEF Restores, ArchiveOK, EntryOK
    <3>3. <<d, n[1], n[2]>> \in InDir(d)
      BY <3>2, PathMade
    <3>4. <<d, n[1], n[2]>> \in muddled /\ <<d, n[1], n[2]>> \in job[q].on
      BY <1>5, <2>2, <3>1, <3>3 DEF Restores
    <3> QED
      BY <1>2, <3>1, <3>4 DEF Frame
  <2>3. Restores(job[q])'
    BY <1>1, <1>5, <2>1, <2>2 DEF Restores
  <2> QED
    BY <2>3 DEF JobOK
<1>6. CASE job[q] = Idle \/ Creates(job[q]) \/ Removes(job[q]) \/ Apis(job[q]) \/ Backs(job[q])
  <2>1. \/ (job[q] = Idle)' \/ Creates(job[q])' \/ Removes(job[q])' \/ Apis(job[q])'
        \/ Backs(job[q])'
    BY <1>1, <1>6 DEF Creates, Removes, Apis, Backs
  <2> QED
    BY <2>1 DEF JobOK
<1> QED
  BY <1>1, <1>3, <1>4, <1>5, <1>6 DEF JobOK

\* A file that the step leaves alone stays in order.
LEMMA PathsKept ==
  ASSUME IInv, NEW p \in Procs, NEW X, Frame(p, X), NEW path \in Plain \ X
  PROVE  PathOK(path)'
<1>1. PathOK(path) /\ files'[path] = files[path] /\ promise'[path] = promise[path]
  BY DEF IInv, PathInv, Frame, Plain
<1>2. path \notin muddled' => path \notin muddled
  BY DEF Frame
<1>3. ASSUME path \notin muddled', NEW q \in Procs, Writing(q, path)
      PROVE  Writing(q, path)'
  BY <1>3 DEF Frame, Writing
<1>4. Kind(path) = "account" => path[3] \in Domains
  BY PathFacts DEF Plain
<1> QED
  BY <1>1, <1>2, <1>3, <1>4 DEF PathOK, Frame, KeyKept

\* What is left to show of a step: the job of the command, and the file it changes.
LEMMA StepKeeps ==
  ASSUME IInv, NEW p \in Procs, NEW X, Frame(p, X), JobOK(job[p])', Kept(p)',
         \A path \in X \cap Plain : PathOK(path)'
  PROVE  IInv'
<1>1. JobInv'
  BY OthersKept DEF JobInv
<1>2. PathInv'
  BY PathsKept DEF PathInv
<1>3. TypeOK'
  BY DEF Frame
<1>4. KeptInv'
  BY KeptKept DEF KeptInv
<1> QED
  BY <1>1, <1>2, <1>3, <1>4, ArchiveKept, ShareKept DEF IInv

LEMMA JobMade ==
  ASSUME NEW p \in Procs, NEW j, job'[p] = j, JobOK(j)'
  PROVE  JobOK(job[p])'
  BY DEF JobOK, Idle, Creates, Flags, Removes, Accounts, Apis, Backs, Restores

\* A command that starts.
LEMMA StartKeeps ==
  ASSUME IInv, NEW p \in Procs, NEW j, Start(p, j), JobOK(j)', ~Saves(j), WizardOK'
  PROVE  IInv'
<1>1. job'[p] = j /\ DOMAIN job' = Procs /\ \A q \in Procs \ {p} : job'[q] = job[q]
  BY DEF Start, IInv, TypeOK
<1>2. OthersOn(p) \subseteq Writable
  BY JobFacts DEF OthersOn, IInv
<1>3. muddled' = muddled \cup (j.on \cap OthersOn(p)) /\ UNCHANGED <<files, archives, promise>>
  BY DEF Start
<1>4. TypeOK'
  BY <1>1, <1>2, <1>3 DEF TypeOK, IInv, WizardOK
<1>5. \A path : ~Writing(p, path)
  BY DEF Start, Idle, Writing
<1>6. Frame(p, {})
  BY <1>1, <1>3, <1>4, <1>5 DEF Frame, KeyKept, KeyThere
<1>7. JobOK(job[p])'
  BY <1>1, JobMade
<1>8. Kept(p)'
  BY <1>1 DEF Kept, Saves
<1> QED
  BY <1>6, <1>7, <1>8, StepKeeps

\* A step that changes no file.
LEMMA QuietKeeps ==
  ASSUME IInv, NEW p \in Procs, NEW j, job' = [job EXCEPT ![p] = j],
         j.on \subseteq job[p].on, JobOK(j)', Saves(j) => Kept(p)', UNCHANGED <<files, promise>>,
         muddled' \subseteq Writable, muddled \subseteq muddled',
         job[p].at = "write" => job[p].path \in muddled',
         UNCHANGED archives \/ (ArchiveInv' /\ DOMAIN archives' = ArchiveNames), WizardOK',
         \A a \in ArchiveNames \ job[p].on : archives'[a] = archives[a]
  PROVE  IInv'
<1>1. job'[p] = j /\ DOMAIN job' = Procs /\ \A q \in Procs \ {p} : job'[q] = job[q]
  BY DEF IInv, TypeOK
<1>2. TypeOK'
  BY <1>1 DEF TypeOK, IInv, WizardOK
<1>3. Frame(p, {})
  BY <1>1, <1>2 DEF Frame, KeyKept, KeyThere, Writing
<1>4. JobOK(job[p])'
  BY <1>1, JobMade
<1>5. Kept(p)'
  BY <1>1 DEF Kept, Saves
<1> QED
  BY <1>3, <1>4, <1>5, StepKeeps

\* A step that changes what one file is and what is said of it.
OnlyAt(path) ==
  /\ DOMAIN files' = Paths /\ DOMAIN promise' = Paths
  /\ \A x \in Paths \ {path} : files'[x] = files[x] /\ promise'[x] = promise[x]

LEMMA ChangeKeeps ==
  ASSUME IInv, NEW p \in Procs, NEW path \in Paths, path \in job[p].on, NEW j,
         job' = [job EXCEPT ![p] = j], j.on \subseteq job[p].on, JobOK(j)', Saves(j) => Kept(p)',
         OnlyAt(path), NEW text, files'[path] = text, NEW said, promise'[path] = said,
         text # Absent \/ Kind(path) # "json" \/ path \in muddled',
         muddled' \subseteq Writable, muddled \ muddled' \subseteq {path} \ OthersOn(p),
         job[p].at = "write" => job[p].path = path,
         UNCHANGED archives, WizardOK',
         path \in Plain =>
           /\ text \in TextsOf(Kind(path)) \cup {Absent} /\ said \in SaidOf(Kind(path)) \cup {Absent}
           /\ path \notin muddled' => text = said \/ (j.at = "write" /\ j.path = path)
           /\ Kind(path) = "account" /\ NamesKey(text) => KeyThere(path[3])
  PROVE  IInv'
<1>1. job'[p] = j /\ DOMAIN job' = Procs /\ \A q \in Procs \ {p} : job'[q] = job[q]
  BY DEF IInv, TypeOK
<1>2. /\ DOMAIN files' = Paths /\ files'[path] = text
      /\ DOMAIN promise' = Paths /\ promise'[path] = said
      /\ \A x \in Paths \ {path} : files'[x] = files[x] /\ promise'[x] = promise[x]
  BY DEF OnlyAt
<1>3. TypeOK'
  BY <1>1, <1>2 DEF TypeOK, IInv, WizardOK
<1>4. KeyKept
  BY <1>2, KeyPath DEF KeyKept, KeyThere, Plain
<1>5. Frame(p, {path})
  BY <1>1, <1>2, <1>3, <1>4 DEF Frame, Writing, Plain
<1>6. JobOK(job[p])'
  BY <1>1, JobMade
<1>7. ASSUME path \in Plain PROVE PathOK(path)'
  <2>1. path \notin muddled' => files'[path] = promise'[path] \/ Writing(p, path)'
    BY <1>1, <1>2, <1>7 DEF Writing
  <2>2. Kind(path) = "account" /\ NamesKey(text) => KeyThere(path[3])'
    BY <1>4, <1>7, PathFacts DEF KeyKept, Plain
  <2> QED
    BY <1>2, <1>7, <2>1, <2>2 DEF PathOK
<1>8. Kept(p)'
  BY <1>1 DEF Kept, Saves
<1> QED
  BY <1>5, <1>6, <1>7, <1>8, StepKeeps

(***************************************************************************)
(* Commands that start                                                     *)
(***************************************************************************)
LEMMA DomainMade ==
  ASSUME NEW d \in {"etc", "home"}, NEW n \in Domains, NEW k \in {"domain", "oauth2", "account"}
  PROVE  <<d, k, n>> \in Plain /\ Kind(<<d, k, n>>) = k
<1>1. <<k, n>> \in Names
  BY DEF Names
<1>2. <<d, k, n>> \in Paths
  BY <1>1, PathMade
<1> QED
  BY <1>2 DEF Plain, Kind

LEMMA PlainMade ==
  ASSUME NEW d \in {"etc", "home"}
  PROVE  /\ \A n \in Users : <<d, "user", n>> \in Plain /\ Kind(<<d, "user", n>>) = "user"
         /\ \A n \in Templates : <<d, "template", n>> \in Plain /\ Kind(<<d, "template", n>>) = "template"
         /\ \A n \in Patterns : <<d, "address", n>> \in Plain /\ Kind(<<d, "address", n>>) = "address"
         /\ <<d, "global", "all">> \in Plain /\ Kind(<<d, "global", "all">>) = "global"
         /\ ApiFile(d) \in Paths \ Plain
<1>1. ASSUME NEW k, NEW n, <<k, n>> \in Names
      PROVE  /\ <<d, k, n>> \in Paths /\ Kind(<<d, k, n>>) = k
             /\ k # "api" => <<d, k, n>> \in Plain
  BY <1>1, PathMade DEF Kind, Plain
<1>2. ASSUME NEW n \in Users PROVE <<d, "user", n>> \in Plain /\ Kind(<<d, "user", n>>) = "user"
  <2>1. <<"user", n>> \in Names
    BY DEF Names
  <2> QED BY <1>1, <2>1
<1>3. ASSUME NEW n \in Templates
      PROVE  <<d, "template", n>> \in Plain /\ Kind(<<d, "template", n>>) = "template"
  <2>1. <<"template", n>> \in Names
    BY DEF Names
  <2> QED BY <1>1, <2>1
<1>4. ASSUME NEW n \in Patterns
      PROVE  <<d, "address", n>> \in Plain /\ Kind(<<d, "address", n>>) = "address"
  <2>1. <<"address", n>> \in Names
    BY DEF Names
  <2> QED BY <1>1, <2>1
<1>5. <<d, "global", "all">> \in Plain /\ Kind(<<d, "global", "all">>) = "global"
  <2>1. <<"global", "all">> \in Names
    BY DEF Names
  <2> QED BY <1>1, <2>1
<1>6. ApiFile(d) \in Paths \ Plain
  <2>1. <<"api", "all">> \in Names
    BY DEF Names
  <2> QED BY <1>1, <2>1 DEF ApiFile, Plain
<1> QED
  BY <1>2, <1>3, <1>4, <1>5, <1>6

LEMMA CreationOK ==
  ASSUME NEW path \in Plain, Kind(path) \notin {"account", "json"}, NEW text,
         text = Full(Kind(path))
  PROVE  JobOK(Creation(path, text))' /\ ~Saves(Creation(path, text))
<1>1. Creates(Creation(path, text))' /\ ~Saves(Creation(path, text))
  BY DEF Creates, Creation, Saves
<1> QED
  BY <1>1 DEF JobOK

LEMMA CreationStarts ==
  ASSUME IInv, NEW p \in Procs, NEW path \in Plain, Kind(path) \notin {"account", "json"},
         NEW text, text = Full(Kind(path)), Start(p, Creation(path, text)), WizardOK'
  PROVE  IInv'
<1>1. JobOK(Creation(path, text))' /\ ~Saves(Creation(path, text))
  BY CreationOK
<1> QED
  BY <1>1, StartKeeps

\* The wizard stays at one of its steps.
LEMMA CommandWizard ==
  ASSUME IInv, UNCHANGED <<wizard, second>>
  PROVE  WizardOK'
  BY DEF IInv, TypeOK, WizardOK

LEMMA RewriteStarts ==
  ASSUME IInv, NEW p \in Procs, NEW path \in Plain, Kind(path) # "json", NEW flag \in {On, Off},
         Rewrite(p, path, flag)
  PROVE  IInv'
<1> DEFINE j == [at |-> "read", op |-> "flag", path |-> path, on |-> {path}, flag |-> flag]
<1>1. Start(p, j) /\ files[path] # Absent /\ UNCHANGED <<wizard, second>>
  BY DEF Rewrite, Command
<1>2. job[p] = Idle /\ UNCHANGED <<files, promise>> /\ muddled' = muddled \cup ({path} \cap OthersOn(p))
  BY <1>1 DEF Start
<1>3. path \notin muddled' => promise'[path] # Absent
  <2>1. SUFFICES ASSUME path \notin muddled' PROVE promise[path] # Absent
    BY <1>2
  <2>2. ASSUME NEW q \in Procs, Writing(q, path) PROVE FALSE
    <3>1. q # p
      BY <1>2, <2>2 DEF Writing, Idle
    <3>2. path \in job[q].on
      BY <2>2, JobFacts DEF Writing, IInv
    <3> QED
      BY <1>2, <2>1, <3>1, <3>2 DEF OthersOn
  <2>3. PathOK(path) /\ path \notin muddled
    BY <1>2, <2>1 DEF IInv, PathInv
  <2> QED
    BY <1>1, <2>2, <2>3 DEF PathOK
<1>4. Flags(j)'
  BY <1>3 DEF Flags
<1>5. JobOK(j)' /\ ~Saves(j)
  BY <1>4 DEF JobOK, Saves
<1>6. WizardOK'
  BY <1>1, CommandWizard
<1> QED
  BY <1>1, <1>5, <1>6, StartKeeps

LEMMA RemovalStarts ==
  ASSUME IInv, NEW p \in Procs, NEW path \in Plain, NEW victim \in Plain, Kind(victim) # "json",
         Removal(p, path, victim)
  PROVE  IInv'
<1> DEFINE j == [at |-> "unlink", op |-> "remove", path |-> path, victim |-> victim,
                 on |-> {path, victim}]
<1>1. Start(p, j) /\ UNCHANGED <<wizard, second>>
  BY DEF Removal, Command
<1>2. Removes(j)'
  BY DEF Removes
<1>3. JobOK(j)' /\ ~Saves(j)
  BY <1>2 DEF JobOK, Saves
<1>4. WizardOK'
  BY <1>1, CommandWizard
<1> QED
  BY <1>1, <1>3, <1>4, StartKeeps

LEMMA AccountStarts ==
  ASSUME IInv, NEW p \in Procs, NEW n \in Domains, NEW given \in JsonTexts,
         Start(p, AccountFile(n, given)), WizardOK'
  PROVE  IInv'
<1>1. Accounts(AccountFile(n, given))'
  BY DEF Accounts, AccountFile
<1>2. JobOK(AccountFile(n, given))' /\ ~Saves(AccountFile(n, given))
  BY <1>1 DEF JobOK, Saves, Accounts
<1> QED
  BY <1>2, StartKeeps

LEMMA ApiStarts ==
  ASSUME IInv, NEW p \in Procs, NEW d \in {"etc", "home"}, NEW v,
         addProvider(p, d, v) \/ removeProvider(p, d, v)
  PROVE  IInv'
<1>1. PICK at, op, again, text :
        /\ at \in {"open", "append"} /\ op \in {"provide", "withdraw"}
        /\ Command(p, [at |-> at, op |-> op, path |-> ApiFile(d), on |-> {ApiFile(d)},
                       provider |-> v, again |-> again, text |-> text])
  BY DEF addProvider, removeProvider
<1> DEFINE j == [at |-> at, op |-> op, path |-> ApiFile(d), on |-> {ApiFile(d)},
                 provider |-> v, again |-> again, text |-> text]
<1>2. Apis(j)'
  BY <1>1, PlainMade DEF Apis
<1>3. JobOK(j)' /\ ~Saves(j)
  <2>1. ~Saves(j)
    BY <1>1 DEF Saves
  <2>2. JobOK(j)'
    BY <1>2 DEF JobOK
  <2> QED BY <2>1, <2>2
<1>4. Start(p, j) /\ WizardOK'
  BY <1>1, CommandWizard DEF Command
<1> QED
  BY <1>3, <1>4, StartKeeps

LEMMA BackupStarts ==
  ASSUME IInv, NEW p \in Procs, NEW d \in {"etc", "home"}, backupConfig(p, d)
  PROVE  IInv'
<1> DEFINE j == [at |-> "tar", op |-> "backup", dir |-> d, on |-> {Backup}, to |-> Backup,
                 todo |-> {}]
<1>1. Start(p, j) /\ WizardOK'
  BY CommandWizard DEF backupConfig, Command
<1>2. Backs(j)'
  BY DEF Backs
<1>3. JobOK(j)' /\ ~Saves(j)
  BY <1>2 DEF JobOK, Saves
<1> QED
  BY <1>1, <1>3, StartKeeps

LEMMA RestoreStarts ==
  ASSUME IInv, NEW p \in Procs, NEW d \in {"etc", "home"}, NEW a \in ArchiveNames,
         restoreConfig(p, d, a)
  PROVE  IInv'
<1>1. PICK s \in second..MaxSecond :
        /\ second' = s /\ UNCHANGED wizard
        /\ Start(p, [at |-> "tar", op |-> "restore", dir |-> d,
                     on |-> InDir(d) \cup {PreRestore(s)}, to |-> PreRestore(s),
                     todo |-> {}, from |-> a])
  BY DEF restoreConfig
<1> DEFINE j == [at |-> "tar", op |-> "restore", dir |-> d, on |-> InDir(d) \cup {PreRestore(s)},
                 to |-> PreRestore(s), todo |-> {}, from |-> a]
<1>2. s \in Nat /\ PreRestore(s) \in ArchiveNames
  BY ConfigAssumption DEF ConfigAssumption, IInv, TypeOK, WizardOK, PreRestore, ArchiveNames
<1>3. Restores(j)'
  BY <1>2 DEF Restores
<1>4. JobOK(j)' /\ ~Saves(j)
  BY <1>3 DEF JobOK, Saves
<1>5. WizardOK'
  BY <1>1, <1>2 DEF IInv, TypeOK, WizardOK
<1> QED
  BY <1>1, <1>4, <1>5, StartKeeps

LEMMA OAuth2Starts ==
  ASSUME IInv, NEW p \in Procs, NEW n \in Domains, Start(p, OAuth2File(n)), WizardOK'
  PROVE  IInv'
<1>1. <<"etc", "oauth2", n>> \in Plain /\ Kind(<<"etc", "oauth2", n>>) = "oauth2"
  BY DomainMade
<1>2. OAuth2Text = Full(Kind(<<"etc", "oauth2", n>>))
  BY <1>1 DEF Full
<1> QED
  BY <1>1, <1>2, CreationStarts DEF OAuth2File

\* Every command starts with the invariant kept.
LEMMA StartsKeep ==
  ASSUME IInv, NEW p \in Procs, Starts(p)
  PROVE  IInv'
<1> USE DEF On, Off
<1>1. DirsOf[p] \subseteq {"etc", "home"}
  BY ConfigAssumption DEF ConfigAssumption
<1>2. ASSUME NEW d \in DirsOf[p], NEW n \in Domains,
             addDomain(p, d, n) \/ enableDomain(p, d, n) \/ disableDomain(p, d, n)
               \/ removeDomain(p, d, n)
      PROVE  IInv'
  <2>1. \A k \in {"domain", "account"} : <<d, k, n>> \in Plain /\ Kind(<<d, k, n>>) = k
    <3>1. d \in {"etc", "home"}
      BY <1>1
    <3>2. \A k \in {"domain", "oauth2", "account"} : <<d, k, n>> \in Plain /\ Kind(<<d, k, n>>) = k
      BY <3>1, DomainMade
    <3> QED
      BY <3>2
  <2>2. CASE addDomain(p, d, n)
    <3>1. DomainText = Full(Kind(<<d, "domain", n>>))
      BY <2>1 DEF Full
    <3>2. Start(p, Creation(<<d, "domain", n>>, DomainText)) /\ WizardOK'
      BY <2>2, CommandWizard DEF addDomain, DomainFile, Command
    <3> QED
      BY <2>1, <3>1, <3>2, CreationStarts
  <2>3. CASE enableDomain(p, d, n) \/ disableDomain(p, d, n)
    <3>1. PICK k \in {"domain", "account"}, flag \in {On, Off} : Rewrite(p, <<d, k, n>>, flag)
      BY <2>3 DEF enableDomain, disableDomain
    <3> QED
      BY <2>1, <3>1, RewriteStarts
  <2>4. CASE removeDomain(p, d, n)
    <3>1. PICK k \in {"domain", "account"} : Removal(p, <<d, k, n>>, <<d, k, n>>)
      BY <2>4 DEF removeDomain
    <3> QED
      BY <2>1, <3>1, RemovalStarts
  <2> QED
    BY <1>2, <2>2, <2>3, <2>4
<1>3. ASSUME NEW d \in DirsOf[p], NEW n \in Users,
             addUser(p, d, n) \/ enableUser(p, d, n) \/ disableUser(p, d, n) \/ removeUser(p, d, n)
      PROVE  IInv'
  <2>1. <<d, "user", n>> \in Plain /\ Kind(<<d, "user", n>>) = "user"
    BY <1>1, PlainMade
  <2>2. CASE addUser(p, d, n)
    <3>1. UserText = Full(Kind(<<d, "user", n>>))
      BY <2>1 DEF Full
    <3>2. Start(p, Creation(<<d, "user", n>>, UserText)) /\ WizardOK'
      BY <2>2, CommandWizard DEF addUser, UserFile, Command
    <3> QED
      BY <2>1, <3>1, <3>2, CreationStarts
  <2>3. CASE enableUser(p, d, n) \/ disableUser(p, d, n)
    <3>1. PICK flag \in {On, Off} : Rewrite(p, <<d, "user", n>>, flag)
      BY <2>3 DEF enableUser, disableUser
    <3> QED
      BY <2>1, <3>1, RewriteStarts
  <2>4. CASE removeUser(p, d, n)
    BY <2>1, <2>4, RemovalStarts DEF removeUser
  <2> QED
    BY <1>3, <2>2, <2>3, <2>4
<1>4. ASSUME NEW d \in DirsOf[p], NEW n \in Templates, removeTemplate(p, d, n)
      PROVE  IInv'
  <2>1. <<d, "template", n>> \in Plain /\ Kind(<<d, "template", n>>) = "template"
    BY <1>1, PlainMade
  <2> QED
    BY <1>4, <2>1, RemovalStarts DEF removeTemplate
<1>5. ASSUME NEW d \in DirsOf[p], NEW n \in Patterns, removeAddressTemplate(p, d, n)
      PROVE  IInv'
  <2>1. PICK m \in {n} \cup {q \in Patterns : <<n, q>> \in Longer} :
          Removal(p, <<d, "address", n>>, <<d, "address", m>>)
    BY <1>5 DEF removeAddressTemplate
  <2>2. \A k \in {n, m} : <<d, "address", k>> \in Plain /\ Kind(<<d, "address", k>>) = "address"
    BY <1>1, PlainMade
  <2> QED
    BY <2>1, <2>2, RemovalStarts
<1>6. ASSUME NEW d \in DirsOf[p], setupGlobalConfig(p, d)
      PROVE  IInv'
  <2>1. <<d, "global", "all">> \in Plain /\ Kind(<<d, "global", "all">>) = "global"
    BY <1>1, PlainMade
  <2>2. GlobalText = Full(Kind(<<d, "global", "all">>))
    BY <2>1 DEF Full
  <2>3. Start(p, Creation(<<d, "global", "all">>, GlobalText))
    BY <1>6 DEF setupGlobalConfig
  <2>4. WizardOK'
    BY <1>1, <1>6 DEF setupGlobalConfig, IInv, TypeOK, WizardOK
  <2> QED
    BY <2>1, <2>2, <2>3, <2>4, CreationStarts
<1>7. ASSUME NEW n \in Templates, createTemplate(p, n)
      PROVE  IInv'
  <2>1. <<"etc", "template", n>> \in Plain /\ Kind(<<"etc", "template", n>>) = "template"
    BY PlainMade
  <2>2. TemplateText = Full(Kind(<<"etc", "template", n>>))
    BY <2>1 DEF Full
  <2>3. Start(p, Creation(<<"etc", "template", n>>, TemplateText)) /\ WizardOK'
    BY <1>7, CommandWizard DEF createTemplate, Command
  <2> QED
    BY <2>1, <2>2, <2>3, CreationStarts
<1>8. ASSUME NEW n \in Patterns, createAddressTemplate(p, n)
      PROVE  IInv'
  <2>1. <<"etc", "address", n>> \in Plain /\ Kind(<<"etc", "address", n>>) = "address"
    BY PlainMade
  <2>2. AddressText = Full(Kind(<<"etc", "address", n>>))
    BY <2>1 DEF Full
  <2>3. Start(p, Creation(<<"etc", "address", n>>, AddressText)) /\ WizardOK'
    BY <1>8, CommandWizard DEF createAddressTemplate, Command
  <2> QED
    BY <2>1, <2>2, <2>3, CreationStarts
<1>9. ASSUME NEW n \in Domains, setupOAuth2(p, n)
      PROVE  IInv'
  <2>1. Start(p, OAuth2File(n)) /\ WizardOK'
    BY <1>9, CommandWizard DEF setupOAuth2, Command
  <2> QED
    BY <2>1, OAuth2Starts
<1>10. ASSUME NEW n \in Domains, NEW given \in JsonTexts, addServiceAccount(p, n, given)
       PROVE  IInv'
  <2>1. Start(p, AccountFile(n, given)) /\ WizardOK'
    BY <1>10, CommandWizard DEF addServiceAccount, Command
  <2> QED
    BY <2>1, AccountStarts
<1>11. ASSUME NEW d \in DirsOf[p], backupConfig(p, d) \/ (\E a \in ArchiveNames : restoreConfig(p, d, a))
                \/ (\E v \in Providers : addProvider(p, d, v) \/ removeProvider(p, d, v))
       PROVE  IInv'
  BY <1>1, <1>11, BackupStarts, RestoreStarts, ApiStarts
<1> QED
  BY <1>2, <1>3, <1>4, <1>5, <1>6, <1>7, <1>8, <1>9, <1>10, <1>11 DEF Starts

(***************************************************************************)
(* Commands that write a file                                              *)
(***************************************************************************)
\* What a command that is about to write holds.
LEMMA WriterKinds ==
  ASSUME IInv, NEW p \in Procs, job[p].at \in {"open", "append", "write"}
  PROVE  /\ \/ Creates(job[p]) \/ Flags(job[p]) \/ Accounts(job[p]) \/ Apis(job[p])
         /\ job[p].path \in Paths /\ job[p].path \in job[p].on
         /\ job[p].path \in Plain =>
              /\ job[p].at \in {"open", "write"}
              /\ job[p].text \in TextsOf(Kind(job[p].path))
<1>1. \/ Creates(job[p]) \/ Flags(job[p]) \/ Accounts(job[p]) \/ Apis(job[p])
  BY JobKinds DEF Idle, Removes, Backs, Restores
<1>2. CASE Creates(job[p])
  <2>1. Kind(job[p].path) \in PlainKinds
    BY <1>2, PathFacts DEF Creates, Plain
  <2> QED
    BY <1>2, <2>1, FullTexts DEF Creates, Plain
<1>3. CASE Flags(job[p])
  BY <1>3 DEF Flags, Plain
<1>4. CASE Accounts(job[p])
  <2>1. PICK n \in Domains :
          /\ job[p].on = {Key(n), Conf(n)}
          /\ \/ job[p].path = Key(n) /\ job[p].text \in JsonTexts
             \/ job[p].path = Conf(n) /\ job[p].text = AccountText
    BY <1>4 DEF Accounts
  <2>2. /\ job[p].path \in Plain /\ job[p].path \in job[p].on
        /\ job[p].text \in TextsOf(Kind(job[p].path))
    <3>1. CASE job[p].path = Key(n)
      BY <2>1, <3>1, KeyPath, FullTexts
    <3>2. CASE job[p].path = Conf(n)
      <4>1. Kind(job[p].path) \in PlainKinds /\ job[p].text = Full(Kind(job[p].path))
        BY <2>1, <3>2, KeyPath DEF Full, PlainKinds
      <4> QED
        BY <2>1, <3>2, <4>1, KeyPath, FullTexts
    <3> QED
      BY <2>1, <3>1, <3>2
  <2>3. job[p].at \in {"open", "write"}
    BY <1>4 DEF Accounts
  <2> QED
    BY <1>4, <2>2, <2>3 DEF Plain
<1>5. CASE Apis(job[p])
  BY <1>5 DEF Apis
<1> QED
  BY <1>1, <1>2, <1>3, <1>4, <1>5

\* What a command that is cut off leaves fits the file.
LEMMA WrittenFits ==
  ASSUME IInv, NEW p \in Procs, job[p].at = "write", job[p].path \in Plain,
         NEW k \in Nat, k <= Len(job[p].text)
  PROVE  LET new == Written(p, SubSeq(job[p].text, 1, k)) IN
         /\ new \in TextsOf(Kind(job[p].path))
         /\ NamesKey(new) => NamesKey(job[p].text) \/ NamesKey(files[job[p].path])
<1> DEFINE path == job[p].path
           text == job[p].text
           old  == IF files[path] = Absent THEN <<>> ELSE files[path]
           new  == Overlay(SubSeq(text, 1, k), old)
<1>1. text \in TextsOf(Kind(path))
  BY WriterKinds
<1>2. PathOK(path) /\ Kind(path) \in PlainKinds
  BY PathFacts DEF IInv, PathInv, Plain
<1>3. old \in TextsOf(Kind(path))
  BY <1>2, FullTexts DEF PathOK
<1>4. Full(Kind(path)) \in Seq(TextLines)
  BY <1>2, FullTexts DEF TextsOf
<1>5. Written(p, SubSeq(text, 1, k)) = new
  BY DEF Written
<1>6. old # Absent /\ text # Absent /\ (NamesKey(old) => NamesKey(files[path]))
  BY <1>1, <1>3, FullTexts, AbsentAssumption DEF AbsentAssumption, TextsOf
<1> HIDE DEF new, old, path, text
<1>7. text \in Seq(TextLines) /\ old \in Seq(TextLines) /\ k <= Len(text)
      /\ Len(text) <= Len(Full(Kind(path))) /\ Len(old) <= Len(Full(Kind(path)))
  BY <1>1, <1>3 DEF TextsOf, text
<1>8. /\ new \in Seq(TextLines)
      /\ Len(new) <= Len(text) \/ Len(new) <= Len(old)
      /\ \A e : Contains(new, e) => Contains(text, e) \/ Contains(old, e)
  BY <1>7, OverlayPart DEF new
<1>9. Len(new) \in Nat /\ Len(text) \in Nat /\ Len(old) \in Nat /\ Len(Full(Kind(path))) \in Nat
  BY <1>4, <1>7, <1>8, LenProperties
<1>10. new \in TextsOf(Kind(path))
  BY <1>7, <1>8, <1>9 DEF TextsOf
<1>11. NamesKey(new) => NamesKey(text) \/ NamesKey(old)
  BY <1>6, <1>8 DEF NamesKey
<1> QED
  BY <1>5, <1>6, <1>10, <1>11 DEF path, text

\* A command that writes the whole text of a file leaves nothing else in it.
LEMMA WrittenWhole ==
  ASSUME IInv, NEW p \in Procs, job[p].at = "write", job[p].path \in Plain,
         \/ Len(job[p].text) = Len(Full(Kind(job[p].path)))
         \/ files[job[p].path] = <<>>
  PROVE  Written(p, job[p].text) = job[p].text
<1> DEFINE path == job[p].path
           text == job[p].text
           old  == IF files[path] = Absent THEN <<>> ELSE files[path]
<1>1. text \in TextsOf(Kind(path))
  BY WriterKinds
<1>2. PathOK(path) /\ Kind(path) \in PlainKinds
  BY PathFacts DEF IInv, PathInv, Plain
<1>3. old \in TextsOf(Kind(path)) /\ (files[path] = <<>> => old = <<>>)
  BY <1>2, FullTexts DEF PathOK
<1>4. Written(p, text) = Overlay(text, old)
  BY DEF Written
<1> HIDE DEF old, path, text
<1>5. text \in Seq(TextLines) /\ old \in Seq(TextLines) /\ Len(old) <= Len(Full(Kind(path)))
  BY <1>1, <1>3 DEF TextsOf
<1>6. CASE Len(text) = Len(Full(Kind(path)))
  BY <1>4, <1>5, <1>6, OverlayWhole DEF text, path
<1>7. CASE files[path] = <<>>
  <2>1. Len(old) <= Len(text)
    BY <1>3, <1>5, <1>7, LenProperties
  <2> QED
    BY <1>4, <1>5, <2>1, OverlayWhole DEF text, path
<1> QED
  BY <1>6, <1>7 DEF path, text

\* A command that is going to name a key comes after it.
LEMMA TextHasKey ==
  ASSUME IInv, NEW p \in Procs, job[p].at \in {"open", "write"}, job[p].path \in Plain,
         Kind(job[p].path) = "account", NamesKey(job[p].text)
  PROVE  KeyThere(job[p].path[3])
<1>1. \/ Creates(job[p]) \/ Flags(job[p]) \/ Accounts(job[p]) \/ Apis(job[p])
  BY WriterKinds
<1>2. CASE Flags(job[p])
  BY <1>2 DEF Flags
<1>3. CASE Accounts(job[p])
  <2>1. PICK n \in Domains : \/ job[p].path = Key(n)
                             \/ job[p].path = Conf(n) /\ KeyThere(n)
    BY <1>3 DEF Accounts
  <2> QED
    BY <2>1, KeyPath
<1> QED
  BY <1>1, <1>2, <1>3 DEF Creates, Apis

\* A stream that is opened, or a part of a text that is written.
LEMMA OpenKeeps ==
  ASSUME IInv, NEW p \in Procs, Open(p)
  PROVE  IInv'
<1> DEFINE path == job[p].path
<1>1. PICK j : j = [job[p] EXCEPT !.at = "write"]
  OBVIOUS
<1>2. /\ job[p].at = "open" /\ job' = [job EXCEPT ![p] = j]
      /\ files' = [files EXCEPT ![path] = <<>>] /\ UNCHANGED <<archives, wizard, second, promise, muddled>>
  BY <1>1 DEF Open, Goto
<1>3. /\ \/ Creates(job[p]) \/ Flags(job[p]) \/ Accounts(job[p]) \/ Apis(job[p])
      /\ path \in Paths /\ path \in job[p].on
  BY <1>2, WriterKinds
<1>4. files'[path] = <<>> /\ OnlyAt(path)
  BY <1>2, <1>3 DEF IInv, TypeOK, OnlyAt
<1>5. JobOK(j)' /\ j.on = job[p].on /\ j.at = "write" /\ j.path = path
  <2>1. CASE Creates(job[p])
    <3>1. Creates(j)' /\ j.on = job[p].on /\ j.at = "write" /\ j.path = path
      BY <1>1, <2>1 DEF Creates
    <3> QED BY <3>1 DEF JobOK
  <2>2. CASE Flags(job[p])
    <3>1. j.on = job[p].on /\ j.at = "write" /\ j.path = path /\ j.text = job[p].text
          /\ j.flag = job[p].flag /\ j.op = job[p].op /\ DOMAIN j = DOMAIN job[p]
      BY <1>1, <2>2 DEF Flags
    <3>2. Kind(path) = "account" => path[3] \in Domains /\ path # Key(path[3])
      BY <1>3, PathFacts, KeyPath
    <3>3. ASSUME NEW n \in Domains, path # Key(n), KeyThere(n) PROVE KeyThere(n)'
      BY <1>2, <1>4, <3>3, KeyPath DEF OnlyAt, Plain, KeyThere
    <3>4. PICK n : n = j.path[3]
      OBVIOUS
    <3>5. Kind(path) = "account" /\ NamesKey(j.text) => KeyThere(n)'
      <4>1. SUFFICES ASSUME Kind(path) = "account", NamesKey(j.text) PROVE KeyThere(n)'
        OBVIOUS
      <4>2. n = path[3] /\ n \in Domains /\ path # Key(n)
        BY <3>1, <3>2, <3>4, <4>1
      <4>3. KeyThere(n)
        BY <1>2, <2>2, <3>1, <4>1, <4>2 DEF Flags
      <4> QED
        BY <3>3, <4>2, <4>3
    <3>6. Flags(j)'
      BY <1>2, <1>4, <2>2, <3>1, <3>4, <3>5 DEF Flags
    <3> QED BY <3>1, <3>6 DEF JobOK
  <2>3. CASE Accounts(job[p])
    <3>1. j.on = job[p].on /\ j.at = "write" /\ j.path = path /\ j.text = job[p].text
          /\ j.op = job[p].op /\ DOMAIN j = DOMAIN job[p]
      BY <1>1, <2>3 DEF Accounts
    <3>2. PICK n \in Domains : /\ job[p].on = {Key(n), Conf(n)}
                               /\ path = Conf(n) /\ job[p].text = AccountText /\ KeyThere(n)
      BY <1>2, <2>3 DEF Accounts
    <3>3. KeyThere(n)'
      BY <1>2, <1>4, <3>2, KeyPath DEF OnlyAt, Plain, KeyThere
    <3>4. Accounts(j)'
      BY <2>3, <3>1, <3>2, <3>3 DEF Accounts
    <3> QED BY <3>1, <3>4 DEF JobOK
  <2>4. CASE Apis(job[p])
    <3>1. Apis(j)' /\ j.on = job[p].on /\ j.at = "write" /\ j.path = path
      BY <1>1, <2>4 DEF Apis
    <3> QED BY <3>1 DEF JobOK
  <2> QED BY <1>3, <2>1, <2>2, <2>3, <2>4
<1>6. <<>> # Absent
  <2>1. <<>> \in Seq(TextLines)
    OBVIOUS
  <2> QED BY <2>1, AbsentAssumption DEF AbsentAssumption
<1>7. path \in Plain => /\ <<>> \in TextsOf(Kind(path)) \cup {Absent}
                        /\ promise[path] \in SaidOf(Kind(path)) \cup {Absent}
                        /\ ~NamesKey(<<>>)
  BY FullTexts, PathFacts DEF IInv, PathInv, PathOK, Plain
<1>8. WizardOK' /\ muddled' = muddled /\ muddled' \subseteq Writable /\ promise'[path] = promise[path]
  BY <1>2, CommandWizard DEF IInv, TypeOK
<1>9. ~Saves(j)
  BY <1>5 DEF Saves
<1> HIDE DEF path
<1> QED
  BY <1>2, <1>3, <1>4, <1>5, <1>6, <1>7, <1>8, <1>9, ChangeKeeps DEF path

\* A job that has ended.
LEMMA IdleOK == JobOK(Idle)' /\ Idle.on = {} /\ ~Saves(Idle)
  BY DEF JobOK, Idle, Saves

LEMMA OpenFailsKeeps ==
  ASSUME IInv, NEW p \in Procs, OpenFails(p)
  PROVE  IInv'
<1>1. PICK j : j = Idle
  OBVIOUS
<1>2. job' = [job EXCEPT ![p] = j] /\ UNCHANGED <<files, archives, promise>> /\ job[p].at # "write"
  BY <1>1 DEF OpenFails, End
<1>3. muddled \subseteq muddled' /\ muddled' \subseteq muddled \cup {job[p].path}
  BY DEF OpenFails
<1>4. muddled' \subseteq Writable
  BY <1>3, WriterKinds DEF OpenFails, IInv, TypeOK, Writable
<1>5. JobOK(j)' /\ j.on = {} /\ ~Saves(j)
  BY <1>1, IdleOK
<1>6. WizardOK'
  <2>1. /\ wizard' = [wizard EXCEPT ![p] = NoWizard] \/ UNCHANGED wizard
        /\ UNCHANGED second
    BY DEF OpenFails, WizardMayEnd
  <2> QED
    BY <2>1 DEF IInv, TypeOK, WizardOK, NoWizard
<1> QED
  BY <1>2, <1>3, <1>4, <1>5, <1>6, QuietKeeps

LEMMA CrashKeeps ==
  ASSUME IInv, NEW p \in Procs, Crash(p)
  PROVE  IInv'
<1>1. PICK j : j = Idle
  OBVIOUS
<1>2. job' = [job EXCEPT ![p] = j] /\ UNCHANGED <<files, archives, promise>>
  BY <1>1 DEF Crash, End
<1>3. muddled' = IF job[p].at = "write" THEN muddled \cup {job[p].path} ELSE muddled
  BY DEF Crash
<1>4. muddled' \subseteq Writable
  BY <1>3, WriterKinds DEF IInv, TypeOK, Writable
<1>5. JobOK(j)' /\ j.on = {} /\ ~Saves(j)
  BY <1>1, IdleOK
<1>6. WizardOK'
  BY DEF Crash, IInv, TypeOK, WizardOK, NoWizard
<1> QED
  BY <1>2, <1>3, <1>4, <1>5, <1>6, QuietKeeps

LEMMA WriteFailsKeeps ==
  ASSUME IInv, NEW p \in Procs, WriteFails(p)
  PROVE  IInv'
<1> DEFINE path == job[p].path
<1>1. PICK j : j = Idle
  OBVIOUS
<1>2. PICK k \in 0..MaxCut :
        /\ k < Len(job[p].text)
        /\ files' = [files EXCEPT ![path] = Written(p, SubSeq(job[p].text, 1, k))]
  BY DEF WriteFails
<1>3. PICK text : text = Written(p, SubSeq(job[p].text, 1, k))
  OBVIOUS
<1>4. /\ job[p].at \in {"write", "append"} /\ job' = [job EXCEPT ![p] = j]
      /\ UNCHANGED <<archives, wizard, second, promise>> /\ muddled' = muddled \cup {path}
  BY <1>1 DEF WriteFails, End
<1>5. path \in Paths /\ path \in job[p].on
  BY <1>4, WriterKinds
<1>6. files'[path] = text /\ OnlyAt(path)
  BY <1>2, <1>3, <1>4, <1>5 DEF IInv, TypeOK, OnlyAt
<1>7. JobOK(j)' /\ j.on = {} /\ ~Saves(j)
  BY <1>1, IdleOK
<1>8. ASSUME path \in Plain
      PROVE  /\ text \in TextsOf(Kind(path)) /\ text # Absent
             /\ promise[path] \in SaidOf(Kind(path)) \cup {Absent}
             /\ Kind(path) = "account" /\ NamesKey(text) => KeyThere(path[3])
  <2>1. job[p].at = "write" /\ job[p].text \in TextsOf(Kind(path))
    BY <1>4, <1>8, WriterKinds
  <2>2. k \in Nat /\ k <= Len(job[p].text)
    BY <1>2, <2>1, LenProperties DEF TextsOf
  <2>3. /\ text \in TextsOf(Kind(path))
        /\ NamesKey(text) => NamesKey(job[p].text) \/ NamesKey(files[path])
    BY <1>3, <1>8, <2>1, <2>2, WrittenFits
  <2>4. Kind(path) = "account" /\ NamesKey(files[path]) => KeyThere(path[3])
    BY <1>8 DEF IInv, PathInv, PathOK
  <2>5. Kind(path) = "account" /\ NamesKey(job[p].text) => KeyThere(path[3])
    BY <1>8, <2>1, TextHasKey
  <2>6. promise[path] \in SaidOf(Kind(path)) \cup {Absent}
    BY <1>8 DEF IInv, PathInv, PathOK
  <2>7. text # Absent
    BY <2>3, AbsentAssumption DEF AbsentAssumption, TextsOf
  <2> QED
    BY <2>3, <2>4, <2>5, <2>6, <2>7
<1>9. WizardOK' /\ muddled' \subseteq Writable /\ promise'[path] = promise[path] /\ path \in muddled'
  BY <1>4, <1>5, CommandWizard DEF IInv, TypeOK, Writable
<1>10. text # Absent \/ Kind(path) # "json"
  BY <1>5, <1>8 DEF Plain
<1>11. /\ muddled \ muddled' \subseteq {path} \ OthersOn(p) /\ j.on \subseteq job[p].on
       /\ job[p].at = "write" => job[p].path = path
  BY <1>4, <1>7
<1> HIDE DEF path
<1> QED
  BY <1>4, <1>5, <1>6, <1>7, <1>8, <1>9, <1>10, <1>11, ChangeKeeps

\* A command that has written its file is done, or goes on to name the key.
LEMMA ProceedsOK ==
  ASSUME IInv, NEW p \in Procs, Proceed(p), job[p].at = "write",
         \A n \in Domains : job[p].path = Key(n) => KeyThere(n)'
  PROVE  \E j : /\ job' = [job EXCEPT ![p] = j] /\ j.on \subseteq job[p].on
               /\ JobOK(j)' /\ ~Saves(j)
<1>1. CASE Kind(job[p].path) = "json"
  <2>1. Accounts(job[p])
    <3>1. Creates(job[p]) \/ Flags(job[p]) \/ Accounts(job[p]) \/ Apis(job[p])
      BY WriterKinds
    <3> QED
      BY <1>1, <3>1 DEF Creates, Flags, Apis, Plain
  <2>2. PICK n \in Domains : job[p].on = {Key(n), Conf(n)} /\ job[p].path = Key(n)
    BY <1>1, <2>1, KeyPath DEF Accounts
  <2>3. PICK j : j = [job[p] EXCEPT !.at = "open", !.path = Conf(job[p].path[3]),
                                    !.text = AccountText]
    OBVIOUS
  <2>4. job' = [job EXCEPT ![p] = j] /\ Conf(job[p].path[3]) = Conf(n)
    BY <1>1, <2>2, <2>3, KeyPath DEF Proceed
  <2>5. /\ j.on = job[p].on /\ j.at = "open" /\ j.path = Conf(n) /\ j.text = AccountText
        /\ j.op = "account" /\ DOMAIN j = DOMAIN job[p]
    BY <2>1, <2>3, <2>4 DEF Accounts
  <2>6. KeyThere(n)'
    BY <2>2
  <2>7. Accounts(j)'
    BY <2>1, <2>2, <2>5, <2>6 DEF Accounts
  <2> QED
    BY <2>4, <2>5, <2>7 DEF JobOK, Saves
<1>2. CASE Kind(job[p].path) # "json"
  <2>1. job' = [job EXCEPT ![p] = Idle]
    BY <1>2 DEF Proceed, End
  <2> QED
    BY <2>1, IdleOK
<1> QED
  BY <1>1, <1>2

LEMMA WriteLostKeeps ==
  ASSUME IInv, NEW p \in Procs, WriteLost(p)
  PROVE  IInv'
<1>1. /\ job[p].at = "write" /\ muddled' = muddled \cup {job[p].path} /\ Proceed(p)
      /\ UNCHANGED <<files, archives, wizard, second, promise>>
  BY DEF WriteLost
<1>2. job[p].path \in Paths
  BY <1>1, WriterKinds
<1>3. \A n \in Domains : job[p].path = Key(n) => KeyThere(n)'
  BY <1>1 DEF KeyThere
<1>4. PICK j : /\ job' = [job EXCEPT ![p] = j] /\ j.on \subseteq job[p].on
               /\ JobOK(j)' /\ ~Saves(j)
  BY <1>1, <1>3, ProceedsOK
<1>5. WizardOK' /\ muddled' \subseteq Writable
  BY <1>1, <1>2, CommandWizard DEF IInv, TypeOK, Writable
<1> QED
  BY <1>1, <1>4, <1>5, QuietKeeps

LEMMA WriteNewKeeps ==
  ASSUME IInv, NEW p \in Procs, WriteNew(p)
  PROVE  IInv'
<1> DEFINE path == job[p].path
<1>1. PICK j : j = Idle
  OBVIOUS
<1>2. Creates(job[p]) /\ job[p].at = "write"
  BY JobKinds DEF WriteNew, At
<1>3. PICK text : text = Full(Kind(path))
  OBVIOUS
<1>4. /\ path \in Plain /\ path \in Paths /\ path \in job[p].on /\ job[p].text = text
      /\ Kind(path) \in PlainKinds /\ Kind(path) \notin {"account", "json"}
  BY <1>2, <1>3, PathFacts DEF Creates, Plain
<1>5. Written(p, job[p].text) = text
  BY <1>2, <1>3, <1>4, WrittenWhole
<1>6. /\ files' = [files EXCEPT ![path] = text] /\ promise' = [promise EXCEPT ![path] = text]
      /\ job' = [job EXCEPT ![p] = j] /\ UNCHANGED <<archives, wizard, second>>
      /\ muddled' = IF path \notin OthersOn(p) THEN muddled \ {path} ELSE muddled
  BY <1>1, <1>4, <1>5 DEF WriteNew, Answers, End
<1>7. files'[path] = text /\ promise'[path] = text /\ OnlyAt(path)
  BY <1>4, <1>6 DEF IInv, TypeOK, OnlyAt
<1>8. JobOK(j)' /\ j.on = {} /\ ~Saves(j)
  BY <1>1, IdleOK
<1>9. text \in TextsOf(Kind(path)) /\ text \in SaidOf(Kind(path))
  BY <1>3, <1>4, FullTexts
<1>10. WizardOK' /\ muddled' \subseteq Writable /\ muddled \ muddled' \subseteq {path} \ OthersOn(p)
       /\ j.on \subseteq job[p].on
  BY <1>6, <1>8, CommandWizard DEF IInv, TypeOK
<1> QED
  BY <1>4, <1>6, <1>7, <1>8, <1>9, <1>10, ChangeKeeps

\* What a command reads of a file that is not muddled is what was said of it.
LEMMA FileHolds ==
  ASSUME IInv, NEW p \in Procs, NEW path \in Plain, path \in job[p].on, path \notin muddled,
         job[p].at # "write"
  PROVE  files[path] = promise[path]
<1>1. ASSUME NEW q \in Procs, Writing(q, path) PROVE FALSE
  <2>1. q # p /\ path \in job[q].on
    BY <1>1, JobFacts DEF Writing, IInv
  <2> QED
    BY <2>1 DEF IInv, ShareInv
<1> QED
  BY <1>1 DEF IInv, PathInv, PathOK

LEMMA ReadLinesKeeps ==
  ASSUME IInv, NEW p \in Procs, ReadLines(p)
  PROVE  IInv'
<1> DEFINE path == job[p].path
           flag == job[p].flag
           old  == files[path]
<1>1. PICK text : text = IF old = Absent THEN <<>> ELSE SetFlag(old, flag)
  OBVIOUS
<1>2. PICK j : j = [at |-> "open", op |-> "flag", path |-> path, on |-> job[p].on,
                    flag |-> flag, text |-> text]
  OBVIOUS
<1>3. /\ job' = [job EXCEPT ![p] = j]
      /\ UNCHANGED <<files, archives, wizard, second, promise, muddled>>
  BY <1>1, <1>2 DEF ReadLines
<1>4. Flags(job[p]) /\ job[p].at = "read"
  BY JobKinds DEF ReadLines, At
<1>5. path \in Plain /\ job[p].on = {path} /\ flag \in {On, Off} /\ PathOK(path)
      /\ Kind(path) \in PlainKinds /\ Kind(path) # "json"
  BY <1>4, PathFacts DEF Flags, IInv, PathInv, Plain
<1>6. /\ text \in TextsOf(Kind(path))
      /\ NamesKey(text) => NamesKey(old)
  <2>1. CASE old = Absent
    BY <1>1, <1>5, <2>1, FullTexts
  <2>2. CASE old # Absent
    <3>1. old \in Seq(TextLines) /\ Len(old) <= Len(Full(Kind(path)))
      BY <1>5, <2>2 DEF PathOK, TextsOf
    <3>2. /\ text \in Seq(TextLines) /\ Len(text) = Len(old)
          /\ NamesKey(text) => NamesKey(old)
      BY <1>1, <1>5, <2>2, <3>1, SetFlagKeeps
    <3> QED
      BY <3>1, <3>2 DEF TextsOf
  <2> QED
    BY <2>1, <2>2
<1>7. path \notin muddled => promise[path] # Absent /\ text = SetFlag(promise[path], flag)
  <2>1. SUFFICES ASSUME path \notin muddled
                 PROVE  promise[path] # Absent /\ text = SetFlag(promise[path], flag)
    OBVIOUS
  <2>2. files[path] = promise[path]
    BY <1>4, <1>5, <2>1, FileHolds
  <2>3. promise[path] # Absent
    BY <1>4, <2>1 DEF Flags
  <2> QED
    BY <1>1, <2>2, <2>3
<1>8. PICK n : n = path[3]
  OBVIOUS
<1>9. Kind(path) = "account" /\ NamesKey(text) => KeyThere(n) /\ KeyThere(n)'
  BY <1>3, <1>5, <1>6, <1>8 DEF PathOK, KeyThere
<1>10. /\ j.path = path /\ j.on = {path} /\ j.text = text /\ j.flag = flag /\ j.at = "open"
       /\ j.op = "flag" /\ DOMAIN j = {"at", "op", "path", "on", "flag", "text"}
  BY <1>2, <1>5
<1>11. Flags(j)'
  BY <1>3, <1>5, <1>6, <1>7, <1>8, <1>9, <1>10 DEF Flags
<1>12. JobOK(j)' /\ j.on \subseteq job[p].on /\ ~Saves(j)
  BY <1>2, <1>11 DEF JobOK, Saves
<1>13. WizardOK' /\ muddled' \subseteq Writable
  BY <1>3, CommandWizard DEF IInv, TypeOK
<1> QED
  BY <1>3, <1>4, <1>12, <1>13, QuietKeeps

LEMMA WriteFlagKeeps ==
  ASSUME IInv, NEW p \in Procs, WriteFlag(p)
  PROVE  IInv'
<1> DEFINE path == job[p].path
           flag == job[p].flag
<1>1. PICK j : j = Idle
  OBVIOUS
<1>2. PICK text : text = Written(p, job[p].text)
  OBVIOUS
<1>3. PICK said : said = IF promise[path] = Absent THEN Absent ELSE SetFlag(promise[path], flag)
  OBVIOUS
<1>4. /\ files' = [files EXCEPT ![path] = text] /\ promise' = [promise EXCEPT ![path] = said]
      /\ job' = [job EXCEPT ![p] = j] /\ UNCHANGED <<archives, wizard, second, muddled>>
  BY <1>1, <1>2, <1>3 DEF WriteFlag, Answers, End
<1>5. Flags(job[p]) /\ job[p].at = "write"
  BY JobKinds DEF WriteFlag, At
<1>6. /\ path \in Plain /\ path \in Paths /\ path \in job[p].on /\ flag \in {On, Off}
      /\ PathOK(path) /\ Kind(path) \in PlainKinds /\ job[p].text \in TextsOf(Kind(path))
  BY <1>5, PathFacts DEF Flags, IInv, PathInv, Plain
<1>7. files'[path] = text /\ promise'[path] = said /\ OnlyAt(path)
  BY <1>4, <1>6 DEF IInv, TypeOK, OnlyAt
<1>8. /\ text \in TextsOf(Kind(path)) /\ text # Absent
      /\ Kind(path) = "account" /\ NamesKey(text) => KeyThere(path[3])
  <2>1. PICK k \in Nat : k = Len(job[p].text)
    BY <1>6, LenProperties DEF TextsOf
  <2>2. k <= Len(job[p].text) /\ SubSeq(job[p].text, 1, k) = job[p].text
    BY <1>6, <2>1 DEF TextsOf
  <2>3. /\ text \in TextsOf(Kind(path))
        /\ NamesKey(text) => NamesKey(job[p].text) \/ NamesKey(files[path])
    BY <1>2, <1>5, <1>6, <2>2, WrittenFits
  <2>4. Kind(path) = "account" /\ NamesKey(job[p].text) => KeyThere(path[3])
    BY <1>5, <1>6, TextHasKey
  <2>5. text # Absent
    BY <2>3, AbsentAssumption DEF AbsentAssumption, TextsOf
  <2> QED
    BY <1>6, <2>3, <2>4, <2>5 DEF PathOK
<1>9. said \in SaidOf(Kind(path)) \cup {Absent}
  <2>1. CASE promise[path] # Absent
    <3>1. promise[path] \in SaidOf(Kind(path)) /\ promise[path] \in Seq(TextLines)
      BY <1>6, <2>1 DEF PathOK, SaidOf
    <3> QED
      BY <1>3, <1>6, <2>1, <3>1, SetFlagKeeps
  <2> QED
    BY <1>3, <2>1
<1>10. path \notin muddled => text = said
  <2>1. SUFFICES ASSUME path \notin muddled PROVE text = said
    OBVIOUS
  <2>2. promise[path] # Absent /\ job[p].text = SetFlag(promise[path], flag) /\ files[path] = <<>>
    BY <1>5, <2>1 DEF Flags
  <2>3. Written(p, job[p].text) = job[p].text
    BY <1>5, <1>6, <2>2, WrittenWhole
  <2> QED
    BY <1>2, <1>3, <2>2, <2>3
<1>11. JobOK(j)' /\ j.on \subseteq job[p].on /\ ~Saves(j)
  BY <1>1, IdleOK
<1>12. WizardOK' /\ muddled' \subseteq Writable /\ muddled \ muddled' \subseteq {path} \ OthersOn(p)
  BY <1>4, CommandWizard DEF IInv, TypeOK
<1>13. path \in Plain =>
        /\ text \in TextsOf(Kind(path)) \cup {Absent} /\ said \in SaidOf(Kind(path)) \cup {Absent}
        /\ path \notin muddled' => text = said \/ (j.at = "write" /\ j.path = path)
        /\ Kind(path) = "account" /\ NamesKey(text) => KeyThere(path[3])
  BY <1>4, <1>8, <1>9, <1>10
<1>14. /\ job[p].at = "write" => job[p].path = path
       /\ text # Absent \/ Kind(path) # "json" \/ path \in muddled'
  BY <1>8
<1> HIDE DEF path
<1> QED
  BY ZenonT(30), <1>4, <1>6, <1>7, <1>11, <1>12, <1>13, <1>14, ChangeKeeps

LEMMA UnlinkKeeps ==
  ASSUME IInv, NEW p \in Procs, Unlink(p)
  PROVE  IInv'
<1> DEFINE path == job[p].path
           victim == job[p].victim
<1>1. PICK j : j = Idle
  OBVIOUS
<1>2. Removes(job[p])
  BY JobKinds DEF Unlink, At
<1>3. /\ victim \in Plain /\ path \in Plain /\ Kind(victim) # "json"
      /\ job[p].on = {path, victim} /\ victim \in Paths /\ path \in Paths
  BY <1>2 DEF Removes, Plain
<1>4. /\ files' = [files EXCEPT ![victim] = Absent] /\ job' = [job EXCEPT ![p] = j]
      /\ UNCHANGED <<archives, wizard, second>>
      /\ \/ /\ victim = path /\ promise' = [promise EXCEPT ![path] = Absent]
            /\ muddled' = IF path \notin OthersOn(p) THEN muddled \ {path} ELSE muddled
         \/ muddled' = muddled \cup job[p].on /\ UNCHANGED promise
  BY <1>1 DEF Unlink, Answers, End
<1>5. PICK said : said = IF promise' = [promise EXCEPT ![path] = Absent] /\ victim = path
                         THEN Absent ELSE promise[victim]
  OBVIOUS
<1>6. files'[victim] = Absent /\ promise'[victim] = said /\ OnlyAt(victim)
  BY <1>3, <1>4, <1>5 DEF IInv, TypeOK, OnlyAt
<1>7. said \in SaidOf(Kind(victim)) \cup {Absent} /\ (victim \notin muddled' => said = Absent)
  BY <1>3, <1>4, <1>5 DEF IInv, PathInv, PathOK
<1>8. JobOK(j)' /\ j.on \subseteq job[p].on /\ ~Saves(j)
  BY <1>1, IdleOK
<1>9. WizardOK' /\ muddled' \subseteq Writable /\ muddled \ muddled' \subseteq {victim} \ OthersOn(p)
  BY <1>3, <1>4, CommandWizard DEF IInv, TypeOK, Writable
<1>10. ~NamesKey(Absent) /\ job[p].at # "write"
  BY <1>2, FullTexts DEF Removes
<1>11. victim \in Plain =>
        /\ Absent \in TextsOf(Kind(victim)) \cup {Absent} /\ said \in SaidOf(Kind(victim)) \cup {Absent}
        /\ victim \notin muddled' => Absent = said \/ (j.at = "write" /\ j.path = victim)
        /\ Kind(victim) = "account" /\ NamesKey(Absent) => KeyThere(victim[3])
  BY <1>7, <1>10
<1> HIDE DEF victim
<1> QED
  BY <1>3, <1>4, <1>6, <1>8, <1>9, <1>10, <1>11, ChangeKeeps

LEMMA CopyKeyKeeps ==
  ASSUME IInv, NEW p \in Procs, CopyKey(p)
  PROVE  IInv'
<1> DEFINE path == job[p].path
<1>1. PICK n \in Domains : /\ job[p].on = {Key(n), Conf(n)} /\ path = Key(n)
                           /\ job[p].text \in JsonTexts
  BY JobKinds DEF CopyKey, At, Accounts
<1>2. Accounts(job[p]) /\ job[p].at = "copy" /\ UNCHANGED <<archives, wizard, second, promise, muddled>>
  BY JobKinds DEF CopyKey, At
<1>3. path \in Plain /\ path \in Paths /\ path \in job[p].on /\ Kind(path) = "json"
  BY <1>1, KeyPath DEF Plain
<1>4. WizardOK' /\ muddled' \subseteq Writable /\ muddled \ muddled' \subseteq {path} \ OthersOn(p)
  BY <1>2, CommandWizard DEF IInv, TypeOK
<1>5. CASE files[path] # Absent
  <2>1. PICK j : j = Idle
    OBVIOUS
  <2>2. job' = [job EXCEPT ![p] = j] /\ UNCHANGED files
    BY <1>5, <2>1 DEF CopyKey, End
  <2>3. JobOK(j)' /\ j.on \subseteq job[p].on /\ ~Saves(j)
    BY <2>1, IdleOK
  <2> QED
    BY <1>2, <1>4, <2>2, <2>3, QuietKeeps
<1>6. CASE files[path] = Absent
  <2>1. PICK j : j = [job[p] EXCEPT !.at = "write"]
    OBVIOUS
  <2>2. job' = [job EXCEPT ![p] = j] /\ files' = [files EXCEPT ![path] = <<>>]
    BY <1>6, <2>1 DEF CopyKey, Goto
  <2>3. files'[path] = <<>> /\ promise'[path] = promise[path] /\ OnlyAt(path)
    BY <1>2, <1>3, <2>2 DEF IInv, TypeOK, OnlyAt
  <2>4. j.on = job[p].on /\ j.at = "write" /\ j.path = path /\ j.text = job[p].text /\ j.op = "account"
        /\ DOMAIN j = DOMAIN job[p]
    BY <1>1, <1>2, <2>1 DEF Accounts
  <2>5. Accounts(j)'
    BY <1>1, <1>2, <2>4 DEF Accounts
  <2>6. JobOK(j)'
    BY <2>5 DEF JobOK
  <2>7. <<>> # Absent
    <3>1. <<>> \in Seq(TextLines)
      OBVIOUS
    <3> QED BY <3>1, AbsentAssumption DEF AbsentAssumption
  <2>8. path \in Plain =>
          /\ <<>> \in TextsOf(Kind(path)) \cup {Absent}
          /\ promise[path] \in SaidOf(Kind(path)) \cup {Absent}
          /\ path \notin muddled' => <<>> = promise[path] \/ (j.at = "write" /\ j.path = path)
          /\ Kind(path) = "account" /\ NamesKey(<<>>) => KeyThere(path[3])
    BY <1>3, <2>4, FullTexts, PathFacts DEF IInv, PathInv, PathOK
  <2>9. job[p].at # "write" /\ j.on \subseteq job[p].on /\ ~Saves(j)
    BY <1>2, <2>4 DEF Saves
  <2>10. PICK text, said : text = <<>> /\ said = promise[path]
    OBVIOUS
  <2>11. files'[path] = text /\ promise'[path] = said /\ text # Absent
    BY <2>3, <2>7, <2>10
  <2>12. path \in Plain =>
          /\ text \in TextsOf(Kind(path)) \cup {Absent}
          /\ said \in SaidOf(Kind(path)) \cup {Absent}
          /\ path \notin muddled' => text = said \/ (j.at = "write" /\ j.path = path)
          /\ Kind(path) = "account" /\ NamesKey(text) => KeyThere(path[3])
    BY <2>8, <2>10
  <2> HIDE DEF path
  <2> QED
    BY ZenonT(60), <1>2, <1>3, <1>4, <2>2, <2>3, <2>6, <2>9, <2>11, <2>12, ChangeKeeps
<1> QED
  BY <1>5, <1>6

LEMMA WriteAccountKeeps ==
  ASSUME IInv, NEW p \in Procs, WriteAccount(p)
  PROVE  IInv'
<1> DEFINE path == job[p].path
<1>1. Accounts(job[p]) /\ job[p].at = "write" /\ UNCHANGED <<archives, wizard, second>>
  BY JobKinds DEF WriteAccount, At
<1>2. PICK n \in Domains :
        /\ job[p].on = {Key(n), Conf(n)}
        /\ \/ path = Key(n) /\ job[p].text \in JsonTexts
           \/ path = Conf(n) /\ job[p].text = AccountText /\ KeyThere(n)
  BY <1>1 DEF Accounts
<1>3. PICK text : text = job[p].text
  OBVIOUS
<1>4. /\ path \in Plain /\ path \in Paths /\ path \in job[p].on /\ path[3] = n
      /\ text \in TextsOf(Kind(path)) /\ text \in SaidOf(Kind(path))
      /\ Len(text) = Len(Full(Kind(path)))
  <2>1. CASE path = Key(n)
    BY <1>2, <1>3, <2>1, KeyPath, FullTexts DEF Plain
  <2>2. CASE path = Conf(n)
    <3>1. Kind(path) \in PlainKinds /\ text = Full(Kind(path))
      BY <1>2, <1>3, <2>2, KeyPath DEF Full, PlainKinds
    <3> QED
      BY <1>2, <2>2, <3>1, KeyPath, FullTexts DEF Plain
  <2> QED
    BY <1>2, <2>1, <2>2
<1>5. Written(p, job[p].text) = text
  BY <1>1, <1>3, <1>4, WrittenWhole
<1>6. /\ files' = [files EXCEPT ![path] = text] /\ promise' = [promise EXCEPT ![path] = text]
      /\ muddled' = IF path \notin OthersOn(p) THEN muddled \ {path} ELSE muddled
  BY <1>3, <1>4, <1>5 DEF WriteAccount, Answers
<1>7. files'[path] = text /\ promise'[path] = text /\ OnlyAt(path)
  BY <1>4, <1>6 DEF IInv, TypeOK, OnlyAt
<1>8. text # Absent
  BY <1>4, AbsentAssumption DEF AbsentAssumption, TextsOf
<1>9. WizardOK' /\ muddled' \subseteq Writable /\ muddled \ muddled' \subseteq {path} \ OthersOn(p)
  BY <1>1, <1>6, CommandWizard DEF IInv, TypeOK
<1>10. PICK j : /\ job' = [job EXCEPT ![p] = j] /\ j.on \subseteq job[p].on /\ JobOK(j)' /\ ~Saves(j)
  <2>1. \A m \in Domains : path = Key(m) => KeyThere(m)'
    BY <1>7, <1>8 DEF KeyThere
  <2>2. Proceed(p)
    BY DEF WriteAccount
  <2> QED
    BY <1>1, <2>1, <2>2, ProceedsOK
<1>11. Kind(path) = "account" => KeyThere(path[3])
  BY <1>2, <1>4, KeyPath
<1>12. path \in Plain =>
        /\ text \in TextsOf(Kind(path)) \cup {Absent} /\ text \in SaidOf(Kind(path)) \cup {Absent}
        /\ path \notin muddled' => text = text \/ (j.at = "write" /\ j.path = path)
        /\ Kind(path) = "account" /\ NamesKey(text) => KeyThere(path[3])
  BY <1>4, <1>11
<1>13. job[p].at = "write" => job[p].path = path
  OBVIOUS
<1> HIDE DEF path
<1> QED
  BY <1>1, <1>4, <1>7, <1>8, <1>9, <1>10, <1>12, <1>13, ChangeKeeps

LEMMA WriteApiKeeps ==
  ASSUME IInv, NEW p \in Procs, WriteApi(p)
  PROVE  IInv'
<1> DEFINE path == job[p].path
<1>1. PICK j : j = Idle
  OBVIOUS
<1>2. Apis(job[p])
  BY JobKinds DEF WriteApi
<1>3. path \in Paths \ Plain /\ path \in job[p].on
  BY <1>2 DEF Apis
<1>4. /\ job' = [job EXCEPT ![p] = j] /\ UNCHANGED <<archives, wizard, second>>
      /\ muddled' = IF job[p].again THEN muddled \cup {path} ELSE muddled
  BY <1>1 DEF WriteApi, End
<1>5. OnlyAt(path)
  BY <1>3 DEF WriteApi, IInv, TypeOK, OnlyAt
<1>6. Kind(path) # "json"
  BY <1>3 DEF Plain
<1>7. WizardOK' /\ muddled' \subseteq Writable /\ muddled \ muddled' \subseteq {path} \ OthersOn(p)
  BY <1>3, <1>4, CommandWizard DEF IInv, TypeOK, Writable
<1>8. JobOK(j)' /\ j.on \subseteq job[p].on /\ ~Saves(j)
  BY <1>1, IdleOK
<1>9. PICK text, said : files'[path] = text /\ promise'[path] = said
  OBVIOUS
<1>10. job[p].at = "write" => job[p].path = path
  OBVIOUS
<1> HIDE DEF path
<1> QED
  BY <1>3, <1>4, <1>5, <1>6, <1>7, <1>8, <1>9, <1>10, ChangeKeeps

(***************************************************************************)
(* Archives                                                                *)
(***************************************************************************)
LEMMA TarKeeps ==
  ASSUME IInv, NEW p \in Procs, Tar(p)
  PROVE  IInv'
<1>1. PICK todo : todo = {x \in InDir(job[p].dir) : files[x] # Absent}
  OBVIOUS
<1>2. PICK j : j = [job[p] EXCEPT !.at = "save", !.todo = todo]
  OBVIOUS
<1>3. /\ job' = [job EXCEPT ![p] = j] /\ job[p].at = "tar"
      /\ archives' = [archives EXCEPT ![job[p].to] = <<>>]
      /\ UNCHANGED <<files, wizard, second, promise, muddled>>
  BY <1>1, <1>2 DEF Tar
<1>4. Backs(job[p]) \/ Restores(job[p])
  BY <1>3, JobKinds DEF Idle, Creates, Flags, Removes, Accounts, Apis
<1>5. todo \subseteq InDir(job[p].dir)
  BY <1>1
<1>6. JobOK(j)' /\ j.on = job[p].on
  <2>1. CASE Backs(job[p])
    <3>1. Backs(j)' /\ j.on = job[p].on
      BY <1>2, <1>5, <2>1 DEF Backs
    <3> QED
      BY <3>1 DEF JobOK
  <2>2. CASE Restores(job[p])
    <3>1. Restores(j)' /\ j.on = job[p].on
      BY <1>2, <1>3, <1>5, <2>2 DEF Restores
    <3> QED
      BY <3>1 DEF JobOK
  <2> QED
    BY <1>4, <2>1, <2>2
<1>7. ArchiveInv' /\ DOMAIN archives' = ArchiveNames
  <2>1. \A a \in ArchiveNames : archives'[a] = archives[a] \/ archives'[a] = <<>>
    BY <1>3 DEF IInv, TypeOK
  <2>2. DOMAIN <<>> = {}
    OBVIOUS
  <2>3. ASSUME NEW a \in ArchiveNames PROVE ArchiveOK(archives[a])'
    <3>1. CASE archives'[a] = <<>>
      BY <2>2, <3>1 DEF ArchiveOK
    <3>2. CASE archives'[a] = archives[a]
      BY <1>3, <3>2 DEF IInv, ArchiveInv, ArchiveOK, EntryOK, KeyThere
    <3> QED BY <2>1, <3>1, <3>2
  <2> QED
    BY <1>3, <2>3 DEF ArchiveInv, IInv, TypeOK
<1>8. WizardOK' /\ muddled' \subseteq Writable
  BY <1>3, CommandWizard DEF IInv, TypeOK
<1>9. job[p].to \in job[p].on /\ job[p].to \in ArchiveNames
  BY <1>4 DEF Backs, Restores, Backup, ArchiveNames
<1>10. \A a \in ArchiveNames \ job[p].on : archives'[a] = archives[a]
  BY <1>3, <1>9 DEF IInv, TypeOK
<1>11. Saves(j) => Kept(p)'
  <2>1. job'[p] = j /\ j.to = job[p].to /\ j.dir = job[p].dir /\ j.at = "save" /\ j.todo = todo
    BY <1>2, <1>3, <1>4 DEF Backs, Restores, IInv, TypeOK
  <2>2. archives'[job[p].to] = <<>> /\ <<>> # NoArchive
    BY <1>3, <1>9, EmptyThere DEF IInv, TypeOK
  <2> QED
    BY <1>1, <1>3, <2>1, <2>2 DEF Kept
<1> QED
  BY <1>3, <1>6, <1>7, <1>8, <1>10, <1>11, QuietKeeps

\* A file is saved as it is, and as muddled if another command may be writing it.
LEMMA SavedOK ==
  ASSUME IInv, NEW p \in Procs, job[p].at # "write", NEW path \in Paths, files[path] # Absent
  PROVE  EntryOK(Relative(path), Saved(p, path))
<1>1. /\ Relative(path) \in Names /\ Relative(path)[1] = Kind(path) /\ Relative(path)[2] = path[3]
  BY PathFacts
<1>2. PICK e : e = Saved(p, path)
  OBVIOUS
<1>3. e.text = files[path] /\ e.said = promise[path]
      /\ (~e.muddled => path \notin muddled /\ path \notin OthersOn(p))
  BY <1>2 DEF Saved
<1>4. ASSUME Kind(path) # "api"
      PROVE  /\ e.text \in TextsOf(Kind(path)) /\ e.said \in SaidOf(Kind(path)) \cup {Absent}
             /\ ~e.muddled => e.text = e.said
             /\ Kind(path) = "account" /\ NamesKey(e.text) => KeyThere(path[3])
  <2>1. PathOK(path)
    BY <1>4 DEF IInv, PathInv, Plain
  <2>2. ASSUME path \notin OthersOn(p), NEW q \in Procs, Writing(q, path) PROVE FALSE
    <3>1. q # p /\ path \in job[q].on
      BY <2>2, JobFacts DEF Writing, IInv
    <3> QED
      BY <2>2, <3>1 DEF OthersOn
  <2> QED
    BY <1>3, <2>1, <2>2 DEF PathOK
<1>5. EntryOK(Relative(path), e)
  BY <1>1, <1>4 DEF EntryOK
<1> QED
  BY <1>2, <1>5

LEMMA SaveKeeps ==
  ASSUME IInv, NEW p \in Procs, Save(p)
  PROVE  IInv'
<1>1. PICK path \in InDir(job[p].dir) :
        /\ \/ path \in job[p].todo
           \/ files[path] # Absent /\ Relative(path) \notin DOMAIN archives[job[p].to]
        /\ archives' = [archives EXCEPT ![job[p].to] =
                          IF files[path] = Absent \/ @ = NoArchive THEN @
                          ELSE With(@, Relative(path), Saved(p, path))]
        /\ job' = [job EXCEPT ![p].todo = @ \ {path}]
  BY DEF Save
<1>2. PICK j : j = [job[p] EXCEPT !.todo = @ \ {path}]
  OBVIOUS
<1>3. /\ job' = [job EXCEPT ![p] = j] /\ job[p].at = "save"
      /\ UNCHANGED <<files, wizard, second, promise, muddled>>
  BY <1>1, <1>2 DEF Save
<1>4. Backs(job[p]) \/ Restores(job[p])
  BY <1>3, JobKinds DEF Idle, Creates, Flags, Removes, Accounts, Apis
<1>5. path \in Paths
  BY <1>1, <1>3, <1>4 DEF Backs, Restores, InDir
<1>6. JobOK(j)' /\ j.on = job[p].on
  <2>1. CASE Backs(job[p])
    <3>1. Backs(j)' /\ j.on = job[p].on
      BY <1>2, <2>1 DEF Backs
    <3> QED
      BY <3>1 DEF JobOK
  <2>2. CASE Restores(job[p])
    <3>1. Restores(j)' /\ j.on = job[p].on
      BY <1>2, <1>3, <2>2 DEF Restores
    <3> QED
      BY <3>1 DEF JobOK
  <2> QED
    BY <1>4, <2>1, <2>2
<1>7. ArchiveInv' /\ DOMAIN archives' = ArchiveNames
  <2>1. ASSUME NEW n, NEW e, EntryOK(n, e)
        PROVE  EntryOK(n, e)'
    BY <1>3, <2>1 DEF EntryOK, KeyThere
  <2>2. DOMAIN archives' = ArchiveNames
    BY <1>1 DEF IInv, TypeOK
  <2>3. ASSUME NEW a \in ArchiveNames
        PROVE  ArchiveOK(archives[a])'
    <3>1. PICK old, new : old = archives[a] /\ new = archives'[a]
      OBVIOUS
    <3>2. PICK e : e = Saved(p, path)
      OBVIOUS
    <3>3. ArchiveOK(old)
      BY <3>1 DEF IInv, ArchiveInv
    <3>4. \/ new = old
          \/ old # NoArchive /\ files[path] # Absent /\ new = With(old, Relative(path), e)
      BY <1>1, <3>1, <3>2 DEF IInv, TypeOK
    <3>5. CASE new = old
      BY <2>1, <3>1, <3>3, <3>5 DEF ArchiveOK
    <3>6. CASE old # NoArchive /\ files[path] # Absent /\ new = With(old, Relative(path), e)
      <4>1. EntryOK(Relative(path), e)
        BY <1>3, <1>5, <3>2, <3>6, SavedOK
      <4>2. /\ DOMAIN new = DOMAIN old \cup {Relative(path)}
            /\ \A m \in DOMAIN new : new[m] = IF m = Relative(path) THEN e ELSE old[m]
        BY <3>6 DEF With
      <4>3. \A m \in DOMAIN new : EntryOK(m, new[m])
        BY <3>3, <3>6, <4>1, <4>2 DEF ArchiveOK
      <4>4. \A m \in DOMAIN new : EntryOK(m, new[m])'
        BY <1>3, <3>1, <4>3 DEF EntryOK, KeyThere
      <4> QED
        BY <3>1, <4>4 DEF ArchiveOK
    <3> QED
      BY <3>4, <3>5, <3>6
  <2> QED
    BY <2>2, <2>3 DEF ArchiveInv
<1>8. WizardOK' /\ muddled' \subseteq Writable
  BY <1>3, CommandWizard DEF IInv, TypeOK
<1>9. job[p].to \in job[p].on /\ job[p].to \in ArchiveNames
  BY <1>4 DEF Backs, Restores, Backup, ArchiveNames
<1>10. \A a \in ArchiveNames \ job[p].on : archives'[a] = archives[a]
  BY <1>1, <1>9 DEF IInv, TypeOK
<1>11. ASSUME Saves(j) PROVE Kept(p)'
  <2>1. /\ job'[p] = j /\ j.to = job[p].to /\ j.dir = job[p].dir /\ j.at = "save"
        /\ j.todo = job[p].todo \ {path} /\ j.op = job[p].op
    BY <1>2, <1>3, <1>4 DEF Backs, Restores, IInv, TypeOK
  <2>2. OthersOn(p)' = OthersOn(p)
    BY <1>3 DEF OthersOn, IInv, TypeOK
  <2>3. Restores(job[p]) /\ path \in InDir(job[p].dir)
    BY <1>1, <1>3, <1>4, <1>11, <2>1 DEF Backs, Restores, Saves
  <2> SUFFICES ASSUME job[p].to \notin muddled
               PROVE  /\ archives'[job[p].to] # NoArchive
                      /\ \A x \in InDir(job[p].dir) \ (muddled \cup OthersOn(p)) :
                           files[x] # Absent =>
                             \/ x \in job[p].todo \ {path}
                             \/ SavedAs(archives'[job[p].to], x, files[x])
    BY <1>3, <2>1, <2>2 DEF Kept, SavedAs
  <2>4. PICK old, new : old = archives[job[p].to] /\ new = archives'[job[p].to]
    OBVIOUS
  <2>5. PICK e : e = Saved(p, path)
    OBVIOUS
  <2>6. /\ old # NoArchive
        /\ \A x \in InDir(job[p].dir) \ (muddled \cup OthersOn(p)) :
             files[x] # Absent => x \in job[p].todo \/ SavedAs(old, x, files[x])
    <3>1. Kept(p) /\ Saves(job[p])
      BY <1>3, <2>1, <1>11 DEF IInv, KeptInv, Saves
    <3> QED
      BY <1>3, <2>4, <3>1 DEF Kept
  <2>7. new = IF files[path] = Absent THEN old ELSE With(old, Relative(path), e)
    BY <1>1, <1>9, <2>4, <2>5, <2>6 DEF IInv, TypeOK
  <2>8. CASE files[path] = Absent
    BY <2>4, <2>6, <2>7, <2>8
  <2>9. CASE files[path] # Absent
    <3>1. /\ DOMAIN new = DOMAIN old \cup {Relative(path)}
          /\ \A m \in DOMAIN new : new[m] = IF m = Relative(path) THEN e ELSE old[m]
      BY <2>7, <2>9 DEF With
    <3>2. e.text = files[path]
      BY <2>5 DEF Saved
    <3>3. \A x \in InDir(job[p].dir) : Relative(x) = Relative(path) => x = path
      BY <2>3, SameRelative
    <3>4. new # NoArchive
      <4>1. Relative(path) \in Names
        BY <1>5, PathFacts
      <4>2. new = With(old, Relative(path), e)
        BY <2>7, <2>9
      <4>3. With(old, Relative(path), e) # NoArchive
        BY ZenonT(30), <4>1, WithThere
      <4> QED
        BY <4>2, <4>3
    <3>5. ASSUME NEW x \in InDir(job[p].dir) \ (muddled \cup OthersOn(p)), files[x] # Absent,
                 x \notin job[p].todo \ {path}
          PROVE  SavedAs(new, x, files[x])
      <4>1. CASE x = path
        BY <3>1, <3>2, <4>1 DEF SavedAs
      <4>2. CASE x # path
        BY <2>6, <3>1, <3>3, <3>5, <4>2 DEF SavedAs
      <4> QED BY <4>1, <4>2
    <3> QED
      BY <2>4, <3>4, <3>5
  <2> QED
    BY <2>8, <2>9
<1> QED
  BY <1>3, <1>6, <1>7, <1>8, <1>10, <1>11, QuietKeeps

LEMMA SaveFailsKeeps ==
  ASSUME IInv, NEW p \in Procs, SaveFails(p)
  PROVE  IInv'
<1>1. PICK j : j = Idle
  OBVIOUS
<1>2. /\ job' = [job EXCEPT ![p] = j] /\ job[p].at = "save"
      /\ UNCHANGED <<files, archives, wizard, second, promise, muddled>>
  BY <1>1 DEF SaveFails, End
<1>3. JobOK(j)' /\ j.on \subseteq job[p].on /\ ~Saves(j)
  BY <1>1, IdleOK
<1>4. WizardOK' /\ muddled' \subseteq Writable
  BY <1>2, CommandWizard DEF IInv, TypeOK
<1> QED
  BY <1>2, <1>3, <1>4, QuietKeeps

LEMMA SaveEndsKeeps ==
  ASSUME IInv, NEW p \in Procs, SaveEnds(p)
  PROVE  IInv'
<1>1. job[p].at = "save" /\ UNCHANGED <<files, archives, wizard, second, promise, muddled>>
  BY DEF SaveEnds
<1>2. WizardOK' /\ muddled' \subseteq Writable
  BY <1>1, CommandWizard DEF IInv, TypeOK
<1>3. CASE job[p].op = "backup" \/ archives[job[p].from] \in {NoArchive, <<>>}
  <2>1. PICK j : j = Idle
    OBVIOUS
  <2>2. job' = [job EXCEPT ![p] = j]
    BY <1>3, <2>1 DEF SaveEnds, End
  <2>3. JobOK(j)' /\ j.on \subseteq job[p].on /\ ~Saves(j)
    BY <2>1, IdleOK
  <2> QED
    BY <1>1, <1>2, <2>2, <2>3, QuietKeeps
<1>4. CASE ~(job[p].op = "backup" \/ archives[job[p].from] \in {NoArchive, <<>>})
  <2>1. PICK of : of = archives[job[p].from]
    OBVIOUS
  <2>2. PICK j : j = [at |-> "extract", op |-> "restore", dir |-> job[p].dir, on |-> job[p].on,
                      to |-> job[p].to, of |-> of, out |-> {}, todo |-> DOMAIN of]
    OBVIOUS
  <2>3. job' = [job EXCEPT ![p] = j]
    BY <1>4, <2>1, <2>2 DEF SaveEnds
  <2>4. Restores(job[p])
    BY <1>1, <1>4, JobKinds DEF Idle, Creates, Flags, Removes, Accounts, Apis
  <2>5. ArchiveOK(of) /\ of # NoArchive
    BY <1>1, <1>4, <2>1, <2>4 DEF Restores, IInv, ArchiveInv
  <2>6. ArchiveOK(of)'
    BY <1>1, <2>5 DEF ArchiveOK, EntryOK, KeyThere
  <2>7. Restores(j)' /\ j.on = job[p].on
    BY <2>2, <2>4, <2>5, <2>6 DEF Restores
  <2>8. JobOK(j)'
    BY <2>7 DEF JobOK
  <2>9. ASSUME Saves(j) PROVE Kept(p)'
    <3>1. /\ job'[p] = j /\ j.to = job[p].to /\ j.dir = job[p].dir /\ j.at = "extract"
      BY <2>2, <2>3 DEF IInv, TypeOK
    <3>2. OthersOn(p)' = OthersOn(p)
      BY <2>3 DEF OthersOn, IInv, TypeOK
    <3>3. Kept(p) /\ Saves(job[p]) /\ job[p].todo = {}
      BY <1>1, <2>4 DEF IInv, KeptInv, Saves, Restores, SaveEnds
    <3> QED
      BY <1>1, <3>1, <3>2, <3>3 DEF Kept, SavedAs
  <2> QED
    BY <1>1, <1>2, <2>3, <2>7, <2>8, <2>9, QuietKeeps
<1> QED
  BY <1>3, <1>4

\* Only a restore unlinks and creates what is in its archive.
LEMMA Extracting ==
  ASSUME IInv, NEW p \in Procs, job[p].at = "extract" \/ Extract(p) \/ Place(p) \/ PlaceFails(p)
  PROVE  Restores(job[p]) /\ job[p].at = "extract"
<1>1. job[p].at = "extract"
  BY DEF Extract, Place, PlaceFails
<1> QED
  BY <1>1, JobKinds DEF Idle, Creates, Flags, Removes, Accounts, Apis, Backs

\* What is in the archive of a restore has a path.
LEMMA PathOfName ==
  ASSUME IInv, NEW p \in Procs, Restores(job[p]), job[p].at = "extract",
         NEW n \in job[p].todo \cup job[p].out
  PROVE  /\ EntryOK(n, job[p].of[n]) /\ PathOf(p, n) \in InDir(job[p].dir)
         /\ PathOf(p, n) \in Paths /\ PathOf(p, n) \in job[p].on
         /\ Kind(PathOf(p, n)) = n[1] /\ PathOf(p, n)[3] = n[2]
         /\ Relative(PathOf(p, n)) = n /\ PathOf(p, n) # job[p].to
         /\ n \in job[p].out => PathOf(p, n) \in muddled
<1>1. PICK d \in {"etc", "home"} : d = job[p].dir
  BY DEF Restores
<1>2. EntryOK(n, job[p].of[n]) /\ n \in Names
  BY DEF Restores, ArchiveOK, EntryOK
<1>3. LET path == <<d, n[1], n[2]>> IN
      /\ path \in InDir(d) /\ path \in Paths /\ Relative(path) = n /\ Kind(path) = n[1]
      /\ path[3] = n[2]
  BY <1>2, PathMade
<1>4. job[p].to \in ArchiveNames /\ InDir(job[p].dir) \subseteq job[p].on
  BY DEF Restores
<1>5. n \in job[p].out => PathOf(p, n) \in muddled
  BY DEF Restores, PathOf
<1> QED
  BY <1>1, <1>2, <1>3, <1>4, <1>5, NoPath DEF PathOf

\* The archive of a restore stays in order while no key goes.
LEMMA OfKept ==
  ASSUME NEW of, of # NoArchive, ArchiveOK(of), KeyKept
  PROVE  ArchiveOK(of)'
<1>1. ASSUME NEW m \in DOMAIN of PROVE EntryOK(m, of[m])'
  <2>1. EntryOK(m, of[m])
    BY DEF ArchiveOK
  <2>2. m[1] = "account" => m[2] \in Domains
    BY <2>1, NameFacts DEF EntryOK
  <2> QED
    BY <2>1, <2>2 DEF EntryOK, KeyKept
<1> QED
  BY <1>1 DEF ArchiveOK

LEMMA ExtractKeeps ==
  ASSUME IInv, NEW p \in Procs, Extract(p)
  PROVE  IInv'
<1>1. Restores(job[p]) /\ job[p].at = "extract"
  BY Extracting
<1>2. PICK n \in job[p].todo :
        /\ files' = [files EXCEPT ![PathOf(p, n)] = Absent]
        /\ muddled' = muddled \cup {PathOf(p, n)}
        /\ job' = [job EXCEPT ![p].out = {n}, ![p].todo = @ \ {n}]
  BY DEF Extract
<1>3. PICK path : path = PathOf(p, n)
  OBVIOUS
<1>4. PICK j : j = [job[p] EXCEPT !.out = {n}, !.todo = @ \ {n}]
  OBVIOUS
<1>5. /\ files' = [files EXCEPT ![path] = Absent] /\ muddled' = muddled \cup {path}
      /\ job' = [job EXCEPT ![p] = j] /\ UNCHANGED <<archives, wizard, second, promise>>
  BY <1>2, <1>3, <1>4 DEF Extract, IInv, TypeOK
<1>6. path \in Paths /\ path \in job[p].on
  BY <1>1, <1>3, PathOfName
<1>7. PICK text, said : text = Absent /\ said = promise[path]
  OBVIOUS
<1>8. files'[path] = text /\ promise'[path] = said /\ OnlyAt(path)
  BY <1>5, <1>6, <1>7 DEF IInv, TypeOK, OnlyAt
<1>9. KeyKept
  BY <1>5, <1>8, KeyPath DEF KeyKept, KeyThere, OnlyAt, Plain
<1>10. /\ j.on = job[p].on /\ j.to = job[p].to /\ j.dir = job[p].dir /\ j.at = "extract"
       /\ j.of = job[p].of /\ j.todo = job[p].todo \ {n} /\ j.out = {n} /\ j.op = "restore"
       /\ DOMAIN j = DOMAIN job[p]
  BY <1>1, <1>4 DEF Restores
<1>11. JobOK(j)'
  <2>1. ArchiveOK(j.of)' /\ j.of # NoArchive
    BY <1>1, <1>9, <1>10, OfKept DEF Restores
  <2>2. \A m \in j.out : <<j.dir, m[1], m[2]>> \in muddled'
    BY <1>3, <1>5, <1>10 DEF PathOf
  <2>3. j.todo \cup j.out \subseteq DOMAIN j.of /\ j.todo \cap j.out = {}
    BY <1>1, <1>10 DEF Restores
  <2>4. Restores(j)'
    BY <1>1, <1>10, <2>1, <2>2, <2>3 DEF Restores
  <2> QED
    BY <2>4 DEF JobOK
<1>12. Kept(p)'
  <2>1. job'[p] = j /\ OthersOn(p)' = OthersOn(p)
    BY <1>5 DEF OthersOn, IInv, TypeOK
  <2>2. Kept(p) /\ Saves(job[p])
    BY <1>1 DEF IInv, KeptInv, Saves, Restores
  <2>3. ASSUME NEW x \in InDir(job[p].dir) \ (muddled' \cup OthersOn(p))
        PROVE  x \in InDir(job[p].dir) \ (muddled \cup OthersOn(p)) /\ files'[x] = files[x]
    BY <1>5, <1>8 DEF OnlyAt, InDir
  <2> QED
    BY <1>1, <1>5, <1>10, <2>1, <2>2, <2>3 DEF Kept, SavedAs
<1>13. path \in Plain =>
         /\ text \in TextsOf(Kind(path)) \cup {Absent} /\ said \in SaidOf(Kind(path)) \cup {Absent}
         /\ path \notin muddled' => text = said \/ (j.at = "write" /\ j.path = path)
         /\ Kind(path) = "account" /\ NamesKey(text) => KeyThere(path[3])
  BY <1>5, <1>7, FullTexts DEF IInv, PathInv, PathOK
<1>14. /\ WizardOK' /\ muddled' \subseteq Writable /\ muddled \ muddled' \subseteq {path} \ OthersOn(p)
       /\ text # Absent \/ Kind(path) # "json" \/ path \in muddled'
       /\ job[p].at = "write" => job[p].path = path
       /\ j.on \subseteq job[p].on
  BY <1>1, <1>5, <1>6, <1>10, CommandWizard DEF IInv, TypeOK, Writable
<1>15. job' = [job EXCEPT ![p] = j] /\ UNCHANGED archives /\ (Saves(j) => Kept(p)')
  BY <1>5, <1>12
<1> QED
  BY ZenonT(30), <1>6, <1>8, <1>11, <1>13, <1>14, <1>15, ChangeKeeps

\* A restore that has placed a file goes on, and has the others saved as before.
LEMMA PlacedOK ==
  ASSUME IInv, NEW p \in Procs, Restores(job[p]), job[p].at = "extract",
         NEW n \in job[p].out, NEW path, path = PathOf(p, n), OnlyAt(path), KeyKept,
         muddled \ muddled' \subseteq {path}, UNCHANGED archives, GoesOn(p) \/ End(p)
  PROVE  \E j : /\ job' = [job EXCEPT ![p] = j] /\ j.on \subseteq job[p].on
                /\ JobOK(j)' /\ (Saves(j) => Kept(p)')
<1>1. CASE End(p)
  <2>1. job' = [job EXCEPT ![p] = Idle]
    BY <1>1 DEF End
  <2> QED
    BY <2>1, IdleOK
<1>2. CASE ~End(p)
  <2>1. PICK j : j = [job[p] EXCEPT !.out = {}]
    OBVIOUS
  <2>2. job' = [job EXCEPT ![p] = j]
    BY <1>2, <2>1 DEF GoesOn, IInv, TypeOK
  <2>3. /\ j.on = job[p].on /\ j.to = job[p].to /\ j.dir = job[p].dir /\ j.at = "extract"
        /\ j.of = job[p].of /\ j.todo = job[p].todo /\ j.out = {} /\ j.op = "restore"
        /\ DOMAIN j = DOMAIN job[p]
    BY <2>1 DEF Restores
  <2>4. ArchiveOK(j.of)' /\ j.of # NoArchive
    BY <2>3, OfKept DEF Restores
  <2>5. Restores(j)'
    BY <2>3, <2>4 DEF Restores
  <2>6. JobOK(j)'
    BY <2>5 DEF JobOK
  <2>7. Kept(p)'
    <3>1. job'[p] = j /\ OthersOn(p)' = OthersOn(p)
      BY <2>2 DEF OthersOn, IInv, TypeOK
    <3>2. Kept(p) /\ Saves(job[p])
      BY DEF IInv, KeptInv, Saves, Restores
    <3>3. path # job[p].to /\ Relative(path) = n /\ n \notin job[p].todo
      BY PathOfName DEF Restores
    <3>4. job[p].to \notin muddled' => job[p].to \notin muddled
      BY <3>3
    <3>5. ASSUME NEW x \in InDir(job[p].dir) \ (muddled' \cup OthersOn(p)), x # path
          PROVE  x \in InDir(job[p].dir) \ (muddled \cup OthersOn(p)) /\ files'[x] = files[x]
      BY <3>5 DEF OnlyAt, InDir
    <3> QED
      BY <2>3, <3>1, <3>2, <3>3, <3>4, <3>5 DEF Kept, SavedAs
  <2> QED
    BY <2>2, <2>3, <2>6, <2>7
<1> QED
  BY <1>1, <1>2

LEMMA PlaceKeeps ==
  ASSUME IInv, NEW p \in Procs, Place(p)
  PROVE  IInv'
<1>1. Restores(job[p]) /\ job[p].at = "extract"
  BY Extracting
<1>2. PICK n \in job[p].out :
        LET path == PathOf(p, n)
            saved == job[p].of[n]
        IN
        /\ Put(path, saved.text)
        /\ promise' = [promise EXCEPT ![path] = saved.said]
        /\ muddled' = IF saved.muddled \/ path \in OthersOn(p) THEN muddled ELSE muddled \ {path}
  BY DEF Place
<1>3. PICK path, e : path = PathOf(p, n) /\ e = job[p].of[n]
  OBVIOUS
<1>4. PICK text, said : text = e.text /\ said = e.said
  OBVIOUS
<1>5. /\ files' = [files EXCEPT ![path] = text] /\ promise' = [promise EXCEPT ![path] = said]
      /\ muddled' = IF e.muddled \/ path \in OthersOn(p) THEN muddled ELSE muddled \ {path}
      /\ UNCHANGED <<archives, wizard, second>>
  BY <1>2, <1>3, <1>4 DEF Put
<1>6. /\ EntryOK(n, e) /\ path \in Paths /\ path \in job[p].on /\ path \in muddled
      /\ Kind(path) = n[1] /\ path[3] = n[2]
  BY <1>1, <1>3, PathOfName
<1>7. files'[path] = text /\ promise'[path] = said /\ OnlyAt(path)
  BY <1>5, <1>6 DEF IInv, TypeOK, OnlyAt
<1>8. text # Absent \/ Kind(path) # "json"
  BY <1>4, <1>6, AbsentAssumption DEF EntryOK, AbsentAssumption, TextsOf
<1>9. muddled \ muddled' \subseteq {path} \ OthersOn(p) /\ muddled' \subseteq Writable
  BY <1>5, <1>6 DEF IInv, TypeOK
<1>10. KeyKept
  <2>1. ASSUME NEW m \in Domains, KeyThere(m) PROVE KeyThere(m)'
    <3>1. CASE Key(m) = path
      BY <1>7, <1>8, <3>1, KeyPath DEF KeyThere
    <3>2. CASE Key(m) # path
      BY <1>7, <1>9, <2>1, <3>2, KeyPath DEF KeyThere, OnlyAt, Plain
    <3> QED BY <3>1, <3>2
  <2> QED BY <2>1 DEF KeyKept
<1>11. PICK j : /\ job' = [job EXCEPT ![p] = j] /\ j.on \subseteq job[p].on
                /\ JobOK(j)' /\ (Saves(j) => Kept(p)')
  <2>1. GoesOn(p)
    BY DEF Place
  <2> QED
    BY <1>1, <1>3, <1>5, <1>7, <1>9, <1>10, <2>1, PlacedOK
<1>12. path \in Plain =>
         /\ text \in TextsOf(Kind(path)) \cup {Absent} /\ said \in SaidOf(Kind(path)) \cup {Absent}
         /\ path \notin muddled' => text = said \/ (j.at = "write" /\ j.path = path)
         /\ Kind(path) = "account" /\ NamesKey(text) => KeyThere(path[3])
  <2>1. SUFFICES ASSUME path \in Plain
                 PROVE  /\ text \in TextsOf(n[1]) /\ said \in SaidOf(n[1]) \cup {Absent}
                        /\ path \notin muddled' => text = said
                        /\ n[1] = "account" /\ NamesKey(text) => KeyThere(n[2])
    BY <1>6
  <2>2. n[1] # "api"
    BY <1>6, <2>1 DEF Plain
  <2>3. path \notin muddled' => ~e.muddled
    BY <1>5, <1>6
  <2> QED
    BY <1>4, <1>6, <2>2, <2>3 DEF EntryOK
<1>13. WizardOK' /\ job[p].at # "write"
  BY <1>1, <1>5, CommandWizard
<1> QED
  BY <1>5, <1>6, <1>7, <1>8, <1>9, <1>11, <1>12, <1>13, ChangeKeeps

\* The beginning of a text fits where the text does.
LEMMA BeginningFits ==
  ASSUME NEW kind, NEW text \in TextsOf(kind), NEW k \in Nat, k < Len(text)
  PROVE  /\ SubSeq(text, 1, k) \in TextsOf(kind)
         /\ NamesKey(SubSeq(text, 1, k)) => NamesKey(text)
<1> DEFINE part == SubSeq(text, 1, k)
<1>1. text \in Seq(TextLines) /\ Len(text) <= Len(Full(kind)) /\ Len(text) \in Nat
  BY LenProperties DEF TextsOf
<1>2. part \in Seq(TextLines) /\ Len(part) = k /\ \A i \in 1..k : part[i] = text[i]
  BY <1>1
<1>3. Len(part) <= Len(text)
  BY <1>1, <1>2
<1>4. part \in TextsOf(kind)
  <2>2. Len(Full(kind)) \in Nat
    BY DEF Full, DomainText, UserText, OAuth2Text, AccountText, JsonText, TemplateText,
           AddressText, GlobalText
  <2> QED
    BY <1>1, <1>2, <1>3, <2>2 DEF TextsOf
<1>5. ASSUME NamesKey(part) PROVE NamesKey(text)
  <2>1. PICK i \in 1..k : part[i] = "service_account_file"
    BY <1>2, <1>5 DEF NamesKey, Contains
  <2>2. i \in 1..Len(text) /\ text[i] = "service_account_file"
    BY <1>1, <1>2, <2>1
  <2>3. text # Absent
    BY <1>1, AbsentAssumption DEF AbsentAssumption
  <2> QED
    BY <2>2, <2>3 DEF NamesKey, Contains
<1> QED
  BY <1>4, <1>5

LEMMA PlaceFailsKeeps ==
  ASSUME IInv, NEW p \in Procs, PlaceFails(p)
  PROVE  IInv'
<1>1. Restores(job[p]) /\ job[p].at = "extract"
  BY Extracting
<1>2. PICK n \in job[p].out :
        \E left \in {Absent} \cup {SubSeq(job[p].of[n].text, 1, k) :
                                     k \in {i \in 0..MaxCut : i < Len(job[p].of[n].text)}} :
          Put(PathOf(p, n), left)
  BY DEF PlaceFails
<1>3. PICK path, e : path = PathOf(p, n) /\ e = job[p].of[n]
  OBVIOUS
<1>4. PICK text : /\ text = Absent \/ \E k \in 0..MaxCut : k < Len(e.text) /\ text = SubSeq(e.text, 1, k)
                  /\ Put(path, text)
  BY <1>2, <1>3
<1>5. PICK said : said = promise[path]
  OBVIOUS
<1>6. /\ files' = [files EXCEPT ![path] = text]
      /\ UNCHANGED <<archives, wizard, second, promise, muddled>>
  BY <1>4 DEF PlaceFails, Put
<1>7. /\ EntryOK(n, e) /\ path \in Paths /\ path \in job[p].on /\ path \in muddled
      /\ Kind(path) = n[1] /\ path[3] = n[2]
  BY <1>1, <1>3, PathOfName
<1>8. files'[path] = text /\ promise'[path] = said /\ OnlyAt(path)
  BY <1>5, <1>6, <1>7 DEF IInv, TypeOK, OnlyAt
<1>9. muddled \ muddled' \subseteq {path} \ OthersOn(p) /\ muddled' \subseteq Writable
      /\ path \in muddled'
  BY <1>6, <1>7 DEF IInv, TypeOK
<1>10. KeyKept
  BY <1>6, <1>7, <1>8, KeyPath DEF KeyKept, KeyThere, OnlyAt, Plain
<1>11. PICK j : /\ job' = [job EXCEPT ![p] = j] /\ j.on \subseteq job[p].on
                /\ JobOK(j)' /\ (Saves(j) => Kept(p)')
  <2>1. GoesOn(p) \/ End(p)
    BY DEF PlaceFails
  <2> QED
    BY <1>1, <1>3, <1>6, <1>8, <1>9, <1>10, <2>1, PlacedOK
<1>12. path \in Plain =>
         /\ text \in TextsOf(Kind(path)) \cup {Absent} /\ said \in SaidOf(Kind(path)) \cup {Absent}
         /\ path \notin muddled' => text = said \/ (j.at = "write" /\ j.path = path)
         /\ Kind(path) = "account" /\ NamesKey(text) => KeyThere(path[3])
  <2>1. SUFFICES ASSUME path \in Plain
                 PROVE  /\ text \in TextsOf(n[1]) \cup {Absent}
                        /\ said \in SaidOf(Kind(path)) \cup {Absent}
                        /\ n[1] = "account" /\ NamesKey(text) => KeyThere(n[2])
    BY <1>7, <1>9
  <2>2. n[1] # "api"
    BY <1>7, <2>1 DEF Plain
  <2>3. e.text \in TextsOf(n[1]) /\ (n[1] = "account" /\ NamesKey(e.text) => KeyThere(n[2]))
    BY <1>7, <2>2 DEF EntryOK
  <2>4. said \in SaidOf(Kind(path)) \cup {Absent}
    BY <1>5, <2>1 DEF IInv, PathInv, PathOK
  <2>5. CASE text = Absent
    BY <2>4, <2>5, FullTexts
  <2>6. CASE text # Absent
    <3>1. PICK k \in Nat : k < Len(e.text) /\ text = SubSeq(e.text, 1, k)
      BY <1>4, <2>6, ConfigAssumption DEF ConfigAssumption
    <3>2. text \in TextsOf(n[1]) /\ (NamesKey(text) => NamesKey(e.text))
      BY <2>3, <3>1, BeginningFits
    <3> QED
      BY <2>3, <2>4, <3>2
  <2> QED
    BY <2>5, <2>6
<1>13. WizardOK' /\ job[p].at # "write"
  BY <1>1, <1>6, CommandWizard
<1> QED
  BY <1>6, <1>7, <1>8, <1>9, <1>11, <1>12, <1>13, ChangeKeeps

(***************************************************************************)
(* The wizard                                                              *)
(***************************************************************************)
\* A step of which only the wizard and the clock may have changed.
LEMMA WizardGoesKeeps ==
  ASSUME IInv, UNCHANGED <<files, archives, job, promise, muddled>>, WizardOK'
  PROVE  IInv'
<1>1. TypeOK'
  BY DEF IInv, TypeOK, WizardOK
<1>2. ArchiveInv'
  BY DEF IInv, ArchiveInv, ArchiveOK, EntryOK, KeyThere
<1>3. PathInv'
  BY DEF IInv, PathInv, PathOK, Writing, KeyThere
<1>4. ShareInv'
  BY DEF IInv, ShareInv
<1>5. ASSUME NEW q \in Procs PROVE JobOK(job[q])'
  <2>1. JobOK(job[q])
    BY DEF IInv, JobInv
  <2>2. /\ Creates(job[q]) => Creates(job[q])'
        /\ Flags(job[q]) => Flags(job[q])'
        /\ Removes(job[q]) => Removes(job[q])'
        /\ Accounts(job[q]) => Accounts(job[q])'
        /\ Apis(job[q]) => Apis(job[q])'
        /\ Backs(job[q]) => Backs(job[q])'
    BY DEF Creates, Flags, Removes, Accounts, Apis, Backs, KeyThere
  <2>3. Restores(job[q]) => Restores(job[q])'
    <3>1. ArchiveOK(job[q].of) => ArchiveOK(job[q].of)'
      BY DEF ArchiveOK, EntryOK, KeyThere
    <3> QED
      BY <3>1 DEF Restores
  <2> QED
    BY <2>1, <2>2, <2>3 DEF JobOK
<1>6. KeptInv'
  BY DEF IInv, KeptInv, Kept, OthersOn
<1> QED
  BY <1>1, <1>2, <1>3, <1>4, <1>5, <1>6 DEF IInv, JobInv

LEMMA WizardKeeps ==
  ASSUME IInv, NEW p \in Procs,
         setupDomains(p) \/ setupUsers(p) \/ setupAuthentication(p) \/ setupEnds(p)
  PROVE  IInv'
<1>1. PICK d \in {"etc", "home"} : d = wizard[p][2]
  BY DEF IInv, TypeOK, WizardOK
<1>2. ASSUME NEW n \in Domains, Start(p, DomainFile(d, n)), UNCHANGED <<wizard, second>>
      PROVE  IInv'
  <2>1. <<d, "domain", n>> \in Plain /\ Kind(<<d, "domain", n>>) = "domain"
    BY DomainMade
  <2>2. DomainText = Full(Kind(<<d, "domain", n>>))
    BY <2>1 DEF Full
  <2> QED
    BY <1>2, <2>1, <2>2, CommandWizard, CreationStarts DEF DomainFile
<1>3. ASSUME NEW n \in Users, Start(p, UserFile(d, n)), UNCHANGED <<wizard, second>>
      PROVE  IInv'
  <2>1. <<d, "user", n>> \in Plain /\ Kind(<<d, "user", n>>) = "user"
    BY PlainMade
  <2>2. UserText = Full(Kind(<<d, "user", n>>))
    BY <2>1 DEF Full
  <2> QED
    BY <1>3, <2>1, <2>2, CommandWizard, CreationStarts DEF UserFile
<1>4. ASSUME NEW step \in {"users", "auth"}, WizardGoes(p, step)
      PROVE  IInv'
  <2>1. WizardOK'
    BY <1>4 DEF WizardGoes, IInv, TypeOK, WizardOK
  <2> QED
    BY <1>4, <2>1, WizardGoesKeeps DEF WizardGoes
<1>5. wizard' = [wizard EXCEPT ![p] = NoWizard] /\ UNCHANGED second => WizardOK'
  BY DEF IInv, TypeOK, WizardOK, NoWizard
<1>6. CASE setupDomains(p)
  BY <1>1, <1>2, <1>4, <1>6 DEF setupDomains
<1>7. CASE setupUsers(p)
  BY <1>1, <1>3, <1>4, <1>7 DEF setupUsers
<1>8. CASE setupAuthentication(p)
  <2>1. PICK n \in Domains : \/ Start(p, OAuth2File(n))
                             \/ \E given \in JsonTexts : Start(p, AccountFile(n, given))
    BY <1>8 DEF setupAuthentication
  <2>2. WizardOK'
    BY <1>5, <1>8 DEF setupAuthentication
  <2> QED
    BY <2>1, <2>2, OAuth2Starts, AccountStarts
<1>9. CASE setupEnds(p)
  BY <1>5, <1>9, WizardGoesKeeps DEF setupEnds
<1> QED
  BY <1>6, <1>7, <1>8, <1>9

(***************************************************************************)
(* The theorems                                                            *)
(***************************************************************************)
\* The whole text of a domain names no key.
LEMMA DomainNamesNoKey == ~NamesKey(DomainText)
<1>1. Len(DomainText) = 4 /\ \A i \in 1..4 : DomainText[i] # "service_account_file"
  BY DEF DomainText, On
<1> QED
  BY <1>1 DEF NamesKey, Contains

\* What earlier commands left of a file is the whole text of a domain.
LEMMA InstalledFacts ==
  ASSUME NEW v, NEW flag \in {On, Off}, NEW path \in Plain
  PROVE  LET text == Installed(v, flag)[path] IN
         \/ text = Absent
         \/ /\ Kind(path) = "domain" /\ text # Absent /\ ~NamesKey(text)
            /\ text \in TextsOf("domain") /\ text \in SaidOf("domain")
<1>1. DomainText = Full("domain") /\ "domain" \in PlainKinds
  BY DEF Full, PlainKinds
<1>2. DomainText \in TextsOf("domain") /\ DomainText \in SaidOf("domain")
  BY <1>1, FullTexts
<1>3. ~NamesKey(DomainText)
  BY DomainNamesNoKey
<1>4. PICK text : text = SetFlag(DomainText, flag)
  OBVIOUS
<1>5. DomainText \in Seq(TextLines) /\ Len(DomainText) <= Len(Full("domain"))
  BY <1>2 DEF TextsOf
<1>6. /\ text \in Seq(TextLines) /\ Len(text) = Len(DomainText)
      /\ text \in SaidOf("domain") /\ ~NamesKey(text)
  BY <1>2, <1>3, <1>4, <1>5, SetFlagKeeps
<1>7. text \in TextsOf("domain") /\ text # Absent
  BY <1>5, <1>6, AbsentAssumption DEF TextsOf, AbsentAssumption
<1>8. path \in Paths /\ path # ApiFile("etc")
  BY DEF Plain, Kind, ApiFile
<1>9. path \in Earlier => Kind(path) = "domain"
  BY ConfigAssumption DEF ConfigAssumption, Kind
<1> QED
  BY <1>4, <1>6, <1>7, <1>8, <1>9 DEF Installed

\* What the first backup holds of a file.
LEMMA BackupFacts ==
  ASSUME NEW v, NEW n \in DOMAIN BackupOf(Installed(v, On))
  PROVE  EntryOK(n, BackupOf(Installed(v, On))[n])
<1>1. PICK old : old = Installed(v, On)
  OBVIOUS
<1>2. PICK path \in InDir("etc") : old[path] # Absent /\ n = Relative(path)
  BY <1>1 DEF BackupOf
<1>3. PICK first : first = <<"etc", n[1], n[2]>>
  OBVIOUS
<1>4. n \in Names /\ first = path /\ Kind(path) = n[1] /\ path \in Paths
  <2>1. path \in Paths /\ path[1] = "etc"
    BY <1>2 DEF InDir
  <2> QED
    BY <1>2, <1>3, <2>1, PathFacts
<1>5. PICK e : e = BackupOf(old)[n]
  OBVIOUS
<1>6. e = [text |-> old[first], said |-> Said(first, old[first]), muddled |-> FALSE]
  BY <1>1, <1>3, <1>5 DEF BackupOf
<1>7. e.text = old[path] /\ e.said = Said(path, old[path])
  BY <1>4, <1>6
<1>8. ASSUME n[1] # "api"
      PROVE  /\ e.text \in TextsOf(n[1]) /\ e.said \in SaidOf(n[1]) \cup {Absent}
             /\ e.text = e.said
             /\ n[1] = "account" /\ NamesKey(e.text) => KeyThere(n[2])
  <2>1. path \in Plain
    BY <1>4, <1>8 DEF Plain
  <2>2. /\ n[1] = "domain" /\ old[path] \in TextsOf("domain") /\ old[path] \in SaidOf("domain")
    BY <1>1, <1>2, <1>4, <2>1, InstalledFacts
  <2>3. Said(path, old[path]) = old[path]
    BY <1>4, <1>8 DEF Said
  <2> QED
    BY <1>7, <2>2, <2>3
<1>9. EntryOK(n, e)
  BY <1>4, <1>8 DEF EntryOK
<1> QED
  BY <1>1, <1>5, <1>9

\* The invariant holds first.
LEMMA InitOK == Init => IInv
<1> SUFFICES ASSUME Init PROVE IInv
  OBVIOUS
<1>1. /\ DOMAIN files = Paths /\ DOMAIN promise = Paths /\ muddled = {}
      /\ \A path \in Plain : promise[path] = files[path]
      /\ \A p \in Procs : job[p] = Idle
  BY DEF Init, Nothing, Installed, Said, Plain
<1>2. \A path \in Plain :
        \/ files[path] = Absent
        \/ /\ Kind(path) = "domain" /\ files[path] # Absent /\ ~NamesKey(files[path])
           /\ files[path] \in TextsOf("domain") /\ files[path] \in SaidOf("domain")
  <2>1. CASE files = Nothing
    BY <2>1 DEF Nothing, Plain
  <2>2. ASSUME NEW v, NEW flag \in {On, Off}, files = Installed(v, flag)
        PROVE  \A path \in Plain :
               \/ files[path] = Absent
               \/ /\ Kind(path) = "domain" /\ files[path] # Absent /\ ~NamesKey(files[path])
                  /\ files[path] \in TextsOf("domain") /\ files[path] \in SaidOf("domain")
    BY <2>2, InstalledFacts
  <2> QED
    BY <2>1, <2>2 DEF Init
<1>3. PathInv
  BY <1>1, <1>2, FullTexts DEF PathInv, PathOK
<1>4. ArchiveInv
  <2>1. ASSUME NEW a \in ArchiveNames
        PROVE  archives[a] = NoArchive \/ \E v \in Providers : archives[a] = BackupOf(Installed(v, On))
    BY DEF Init
  <2> QED
    BY <2>1, BackupFacts DEF ArchiveInv, ArchiveOK
<1>5. TypeOK
  BY <1>1 DEF Init, TypeOK, WizardOK, NoWizard
<1>6. JobInv /\ ShareInv /\ KeptInv
  BY <1>1 DEF JobInv, JobOK, ShareInv, KeptInv, Kept, Saves, Idle
<1> QED
  BY <1>3, <1>4, <1>5, <1>6 DEF IInv

\* Every step keeps the invariant.
LEMMA NextKeeps == IInv /\ [Next]_vars => IInv'
<1> SUFFICES ASSUME IInv, [Next]_vars PROVE IInv'
  OBVIOUS
<1>1. ASSUME NEW p \in Procs, Starts(p) PROVE IInv'
  BY <1>1, StartsKeep
<1>2. ASSUME NEW p \in Procs, Steps(p) PROVE IInv'
  <2>1. CASE Open(p) \/ OpenFails(p) \/ WriteFails(p) \/ WriteLost(p)
    BY <2>1, OpenKeeps, OpenFailsKeeps, WriteFailsKeeps, WriteLostKeeps
  <2>2. CASE WriteNew(p) \/ ReadLines(p) \/ WriteFlag(p) \/ Unlink(p)
    BY <2>2, WriteNewKeeps, ReadLinesKeeps, WriteFlagKeeps, UnlinkKeeps
  <2>3. CASE CopyKey(p) \/ WriteAccount(p) \/ WriteApi(p)
    BY <2>3, CopyKeyKeeps, WriteAccountKeeps, WriteApiKeeps
  <2>4. CASE Tar(p) \/ Save(p) \/ SaveFails(p) \/ SaveEnds(p)
    BY <2>4, TarKeeps, SaveKeeps, SaveFailsKeeps, SaveEndsKeeps
  <2>6. CASE Extract(p) \/ Place(p) \/ PlaceFails(p)
    BY <2>6, ExtractKeeps, PlaceKeeps, PlaceFailsKeeps
  <2>5. CASE setupDomains(p) \/ setupUsers(p) \/ setupAuthentication(p) \/ setupEnds(p)
    BY <2>5, WizardKeeps
  <2> QED
    BY <1>2, <2>1, <2>2, <2>3, <2>4, <2>5, <2>6 DEF Steps
<1>3. ASSUME NEW p \in Procs, Crash(p) PROVE IInv'
  BY <1>3, CrashKeeps
<1>4. CASE UNCHANGED vars
  <2>1. WizardOK'
    BY <1>4 DEF vars, IInv, TypeOK, WizardOK
  <2> QED
    BY <1>4, <2>1, WizardGoesKeeps DEF vars
<1> QED
  BY <1>1, <1>2, <1>3, <1>4 DEF Next

LEMMA Invariance == Spec => []IInv
  BY InitOK, NextKeeps, PTL DEF Spec

\* A settled file is not being written.
LEMMA SettledHolds ==
  ASSUME IInv, NEW path \in Settled, Kind(path) # "api"
  PROVE  path \in Plain /\ files[path] = promise[path]
<1>1. path \in Plain /\ path \notin muddled
  BY DEF Settled, Plain
<1>2. ASSUME NEW q \in Procs, Writing(q, path) PROVE FALSE
  <2>1. path \in job[q].on
    BY <1>2, JobFacts DEF Writing, IInv
  <2> QED
    BY <2>1 DEF Settled, InUse
<1> QED
  BY <1>1, <1>2 DEF IInv, PathInv, PathOK

\* Whatever any number of commands do at once, wherever they are killed and fail,
\* a file that one command at a time was done with holds what the last one said.
THEOREM FilesHold == Spec => []LastCommandHolds
<1>1. IInv => LastCommandHolds
  BY SettledHolds DEF LastCommandHolds
<1> QED
  BY <1>1, Invariance, PTL

\* What the commands write, and what enable and disable make of it, has the lines
\* that the validation looks for.
THEOREM FilesPass == Spec => []ErrorsExplained
<1>1. ASSUME IInv, NEW d \in {"etc", "home"}, NEW path \in ConfigErrors(d) \cap Settled
      PROVE  \/ Kind(path) = "account"
             \/ /\ Kind(path) = "json"
                /\ ~(validateServiceAccountConfig \subseteq Range(promise[path]))
  <2>1. path \in Paths /\ files[path] # Absent /\ ~(Required(Kind(path)) \subseteq Range(files[path]))
    BY DEF ConfigErrors, InDir
  <2>2. Kind(path) # "api"
    <3>1. Required("api") = {}
      BY DEF Required
    <3> QED
      BY <2>1, <3>1
  <2>3. path \in Plain /\ files[path] = promise[path]
    BY <1>1, <2>2, SettledHolds
  <2>4. promise[path] \in SaidOf(Kind(path))
    BY <1>1, <2>1, <2>3 DEF IInv, PathInv, PathOK
  <2>5. Kind(path) \in {"account", "json"}
    BY <2>1, <2>3, <2>4 DEF SaidOf
  <2>6. Kind(path) = "json" => Required(Kind(path)) = validateServiceAccountConfig
    BY DEF Required
  <2> QED
    BY <2>1, <2>3, <2>5, <2>6
<1>2. IInv => ErrorsExplained
  BY <1>1 DEF ErrorsExplained
<1> QED
  BY <1>2, Invariance, PTL

\* No file names a key that is not there, whatever is removed or restored.
THEOREM KeysThere == Spec => []AccountKeyThere
<1>1. ASSUME IInv, NEW n \in Domains, NEW d \in {"etc", "home"},
             NamesKey(files[<<d, "account", n>>])
      PROVE  KeyThere(n)
  <2>1. <<d, "account", n>> \in Plain /\ Kind(<<d, "account", n>>) = "account"
    BY DomainMade
  <2>2. PathOK(<<d, "account", n>>) /\ <<d, "account", n>>[3] = n
    BY <1>1, <2>1 DEF IInv, PathInv
  <2> QED
    BY <1>1, <2>1, <2>2 DEF PathOK
<1>2. IInv => AccountKeyThere
  BY <1>1 DEF AccountKeyThere, NamesKey, KeyThere
<1> QED
  BY <1>2, Invariance, PTL

(***************************************************************************)
(* What a restore overwrites                                               *)
(***************************************************************************)
\* A command that starts has written nothing.
LEMMA StartsWriteNothing ==
  ASSUME NEW p, Starts(p)
  PROVE  UNCHANGED files
<1>1. ASSUME NEW j, Command(p, j) PROVE UNCHANGED files
  BY <1>1 DEF Command, Start
<1>2. ASSUME NEW j, Start(p, j) PROVE UNCHANGED files
  BY <1>2 DEF Start
<1>3. ASSUME NEW d, NEW n,
             \/ addDomain(p, d, n) \/ enableDomain(p, d, n) \/ disableDomain(p, d, n)
             \/ removeDomain(p, d, n) \/ addUser(p, d, n) \/ enableUser(p, d, n)
             \/ disableUser(p, d, n) \/ removeUser(p, d, n)
      PROVE  UNCHANGED files
  BY <1>1, <1>3
  DEF addDomain, enableDomain, disableDomain, removeDomain, addUser, enableUser, disableUser,
      removeUser, Rewrite, Removal
<1>4. ASSUME NEW d, NEW n,
             \/ removeTemplate(p, d, n) \/ removeAddressTemplate(p, d, n)
             \/ addProvider(p, d, n) \/ removeProvider(p, d, n) \/ backupConfig(p, d)
             \/ restoreConfig(p, d, n) \/ setupGlobalConfig(p, d)
      PROVE  UNCHANGED files
  BY <1>1, <1>2, <1>4
  DEF removeTemplate, removeAddressTemplate, addProvider, removeProvider, backupConfig,
      restoreConfig, setupGlobalConfig, Removal
<1>5. ASSUME NEW n, NEW given,
             \/ createTemplate(p, n) \/ createAddressTemplate(p, n)
             \/ setupOAuth2(p, n) \/ addServiceAccount(p, n, given)
      PROVE  UNCHANGED files
  BY <1>1, <1>5 DEF createTemplate, createAddressTemplate, setupOAuth2, addServiceAccount
<1> QED
  BY <1>3, <1>4, <1>5 DEF Starts

\* A step changes no file that is not of its command.
LEMMA OwnFiles ==
  ASSUME IInv, NEW p \in Procs, Steps(p), NEW path \in Paths, files'[path] # files[path]
  PROVE  path \in job[p].on /\ (job[p].at = "extract" => Extract(p) \/ path \in muddled)
<1> USE DEF IInv, TypeOK
<1>1. CASE Open(p)
  <2>1. job[p].at = "open" /\ path = job[p].path
    BY <1>1 DEF Open
  <2>2. job[p].path \in job[p].on
    BY <2>1, JobKinds DEF Idle, Creates, Flags, Removes, Accounts, Apis, Backs, Restores
  <2> QED
    BY <2>1, <2>2
<1>2. CASE WriteFails(p) \/ WriteNew(p) \/ WriteFlag(p) \/ WriteAccount(p) \/ WriteApi(p)
  <2>1. job[p].at \in {"write", "append"} /\ path = job[p].path
    BY <1>2 DEF WriteFails, WriteNew, WriteFlag, WriteAccount, WriteApi, At
  <2>2. job[p].path \in job[p].on
    BY <2>1, JobKinds DEF Idle, Creates, Flags, Removes, Accounts, Apis, Backs, Restores
  <2> QED
    BY <2>1, <2>2
<1>3. CASE CopyKey(p)
  <2>1. At(p, "account", "copy") /\ path = job[p].path
    BY <1>3 DEF CopyKey
  <2>2. job[p].path \in job[p].on
    BY <2>1, JobKinds DEF At, Accounts
  <2> QED
    BY <2>1, <2>2 DEF At
<1>4. CASE Unlink(p)
  <2>1. At(p, "remove", "unlink") /\ path = job[p].victim
    BY <1>4 DEF Unlink
  <2>2. job[p].victim \in job[p].on
    BY <2>1, JobKinds DEF At, Removes
  <2> QED
    BY <2>1, <2>2 DEF At
<1>5. CASE Extract(p) \/ Place(p) \/ PlaceFails(p)
  <2>1. Restores(job[p]) /\ job[p].at = "extract"
    BY <1>5, Extracting
  <2>2. PICK n, text :
          /\ n \in job[p].todo \cup job[p].out
          /\ files' = [files EXCEPT ![PathOf(p, n)] = text]
          /\ n \in job[p].out \/ Extract(p)
    BY <1>5 DEF Extract, Place, PlaceFails, Put
  <2>3. path = PathOf(p, n) /\ path[1] = job[p].dir
    BY <2>2 DEF PathOf
  <2>4. n \in job[p].out => path \in muddled
    BY <2>1, <2>3 DEF Restores, PathOf
  <2> QED
    BY <2>1, <2>2, <2>3, <2>4 DEF Restores, InDir
<1>6. CASE \/ OpenFails(p) \/ WriteLost(p) \/ ReadLines(p)
           \/ Tar(p) \/ Save(p) \/ SaveFails(p) \/ SaveEnds(p)
  BY <1>6 DEF OpenFails, WriteLost, ReadLines, Tar, Save, SaveFails, SaveEnds
<1>7. CASE setupDomains(p) \/ setupUsers(p) \/ setupAuthentication(p) \/ setupEnds(p)
  BY <1>7 DEF setupDomains, setupUsers, setupAuthentication, setupEnds, WizardGoes, Start
<1> QED
  BY <1>1, <1>2, <1>3, <1>4, <1>5, <1>6, <1>7 DEF Steps

\* What a restore is about to put in place of a file that it alone is on, it has
\* saved.
LEMMA ExtractsSaved ==
  ASSUME IInv, NEW p \in Procs, Extract(p), job[p].to \notin muddled,
         NEW path \in Paths, path \notin muddled, path \notin OthersOn(p),
         files[path] # Absent, files'[path] # files[path]
  PROVE  /\ archives[job[p].to] # NoArchive
         /\ SavedAs(archives[job[p].to], path, files[path])
<1>1. Restores(job[p]) /\ job[p].at = "extract"
  BY Extracting
<1>2. PICK n \in job[p].todo : files' = [files EXCEPT ![<<job[p].dir, n[1], n[2]>>] = Absent]
  BY DEF Extract, PathOf
<1>3. path = <<job[p].dir, n[1], n[2]>>
  BY <1>2 DEF IInv, TypeOK
<1>4. n \in Names /\ job[p].dir \in {"etc", "home"}
  BY <1>1 DEF Restores, ArchiveOK, EntryOK
<1>5. path \in InDir(job[p].dir) /\ Relative(path) \in job[p].todo
  <2>1. PICK d : d = job[p].dir
    OBVIOUS
  <2> QED
    BY <1>2, <1>3, <1>4, <2>1, PathMade
<1>6. Kept(p) /\ Saves(job[p])
  BY <1>1 DEF IInv, KeptInv, Saves, Restores
<1> QED
  BY <1>1, <1>5, <1>6 DEF Kept

\* Whatever other commands do meanwhile, a restore that shares neither the archive
\* it made before nor a file with one of them overwrites nothing that is not in
\* that archive.
THEOREM RestoresSaveFirst == Spec => ExtractionIsSaved
<1> DEFINE Safe == \A p \in Procs : job[p].at = "extract" /\ job[p].to \notin muddled =>
       \A path \in Paths \ (muddled \cup OthersOn(p)) :
         files[path] # Absent /\ files'[path] # files[path] =>
           LET saved == archives[job[p].to] IN
           /\ saved # NoArchive
           /\ Relative(path) \in DOMAIN saved /\ saved[Relative(path)].text = files[path]
<1>1. ASSUME IInv, [Next]_vars, NEW p \in Procs, job[p].at = "extract", job[p].to \notin muddled,
             NEW path \in Paths \ (muddled \cup OthersOn(p)), files[path] # Absent,
             files'[path] # files[path]
      PROVE  archives[job[p].to] # NoArchive /\ SavedAs(archives[job[p].to], path, files[path])
  <2>1. PICK q \in Procs : Starts(q) \/ Steps(q) \/ Crash(q)
    BY <1>1 DEF Next, vars
  <2>2. ~Starts(q) /\ ~Crash(q)
    BY <1>1, StartsWriteNothing DEF Crash
  <2>3. path \in job[q].on /\ (job[q].at = "extract" => Extract(q) \/ path \in muddled)
    BY <1>1, <2>1, <2>2, OwnFiles
  <2>4. q = p
    BY <1>1, <2>3 DEF OthersOn
  <2> QED
    BY <1>1, <2>3, <2>4, ExtractsSaved
<1>2. IInv /\ [Next]_vars => Safe
  BY <1>1 DEF SavedAs
<1>3. Spec => [][Safe]_vars
  BY <1>2, Invariance, PTL DEF Spec
<1> QED
  BY <1>3 DEF ExtractionIsSaved

(***************************************************************************)
(* The text of api-config.conf                                             *)
(***************************************************************************)
\* The text is the sections of the providers vs, in this order.
SectionsOf(text, vs) ==
  /\ text \in Seq(Pieces) /\ Len(text) = 8 * Len(vs)
  /\ \A i \in 1..Len(vs) :
       /\ text[8 * i - 7] = Header(vs[i]) /\ text[8 * i - 6] = NL
       /\ text[8 * i - 5] = Note(vs[i]) /\ text[8 * i - 4] = NL /\ text[8 * i - 3] = NL
       /\ text[8 * i - 2] = Settings(vs[i]) /\ text[8 * i - 1] = NL /\ text[8 * i] = NL

Distinct(vs) == \A i, k \in 1..Len(vs) : vs[i] = vs[k] => i = k

\* It is the sections of those providers, of each of them one.
ApiOK(text, said) ==
  \E vs \in Seq(Providers) : Distinct(vs) /\ said = Range(vs) /\ SectionsOf(text, vs)

\* Pieces of different kinds and of different providers are different.
LEMMA PieceFacts ==
  ASSUME NEW v
  PROVE  /\ NL # Header(v) /\ NL # Note(v) /\ NL # Settings(v)
         /\ NL[1] = "newline" /\ Header(v)[1] = "[" /\ Note(v)[1] = "#" /\ Settings(v)[1] = "="
         /\ Header(v)[2] = v /\ Settings(v)[2] = v
         /\ \A w : Header(v) = Header(w) => v = w
         /\ \A w : Header(v) # Note(w) /\ Header(v) # Settings(w)
<1>1. /\ NL[1] = "newline" /\ Header(v)[1] = "[" /\ Note(v)[1] = "#" /\ Settings(v)[1] = "="
      /\ Header(v)[2] = v /\ Settings(v)[2] = v
  BY DEF NL, Header, Note, Settings
<1>2. \A w : Header(w)[2] = w /\ Note(w)[1] = "#" /\ Settings(w)[1] = "="
  BY DEF Header, Note, Settings
<1> QED
  BY <1>1, <1>2

\* A position in a text of sections is one of the eight of some section.
LEMMA PlaceIn ==
  ASSUME NEW n \in Nat, NEW k \in 1..(8 * n)
  PROVE  \E i \in 1..n : k \in {8 * i - 7, 8 * i - 6, 8 * i - 5, 8 * i - 4, 8 * i - 3,
                                8 * i - 2, 8 * i - 1, 8 * i}
<1> DEFINE i == (k + 7) \div 8
<1>1. i \in 1..n /\ 8 * i <= k + 7 /\ k + 7 < 8 * i + 8
  OBVIOUS
<1> QED
  BY <1>1

\* Where lines begin with a header or with settings, and where headers are.
LEMMA PlacesOfSections ==
  ASSUME NEW vs \in Seq(Providers), NEW text, SectionsOf(text, vs)
  PROVE  /\ \A k : k \in LineStarts(text) /\ Begins(text, k, "[")
                     <=> \E i \in 1..Len(vs) : k = 8 * i - 7
         /\ \A k : k \in LineStarts(text) /\ Begins(text, k, "=")
                     <=> \E i \in 1..Len(vs) : k = 8 * i - 2
         /\ \A k \in LineStarts(text) : \A v :
              HasHeader(text, k, v) <=> \E i \in 1..Len(vs) : k = 8 * i - 7 /\ vs[i] = v
<1>1. PICK n \in Nat : n = Len(vs)
  BY LenProperties
<1>2. Len(text) = 8 * n /\ DOMAIN text = 1..(8 * n)
  BY <1>1 DEF SectionsOf
<1>3. ASSUME NEW i \in 1..n
      PROVE  /\ text[8 * i - 7] = Header(vs[i]) /\ text[8 * i - 6] = NL
             /\ text[8 * i - 5] = Note(vs[i]) /\ text[8 * i - 4] = NL /\ text[8 * i - 3] = NL
             /\ text[8 * i - 2] = Settings(vs[i]) /\ text[8 * i - 1] = NL /\ text[8 * i] = NL
  BY <1>1, <1>3 DEF SectionsOf
<1>4. ASSUME NEW k \in 1..(8 * n), text[k][1] = "["
      PROVE  \E i \in 1..n : k = 8 * i - 7
  <2>1. PICK i \in 1..n : k \in {8 * i - 7, 8 * i - 6, 8 * i - 5, 8 * i - 4, 8 * i - 3,
                                 8 * i - 2, 8 * i - 1, 8 * i}
    BY PlaceIn
  <2>2. NL[1] # "[" /\ \A v : Note(v)[1] # "[" /\ Settings(v)[1] # "["
    BY PieceFacts
  <2> QED
    BY <1>3, <1>4, <2>1, <2>2
<1>5. ASSUME NEW k \in 1..(8 * n), text[k][1] = "="
      PROVE  \E i \in 1..n : k = 8 * i - 2
  <2>1. PICK i \in 1..n : k \in {8 * i - 7, 8 * i - 6, 8 * i - 5, 8 * i - 4, 8 * i - 3,
                                 8 * i - 2, 8 * i - 1, 8 * i}
    BY PlaceIn
  <2>2. NL[1] # "=" /\ \A v : Note(v)[1] # "=" /\ Header(v)[1] # "="
    BY PieceFacts
  <2> QED
    BY <1>3, <1>5, <2>1, <2>2
<1>6. ASSUME NEW i \in 1..n
      PROVE  /\ 8 * i - 7 \in LineStarts(text) /\ Begins(text, 8 * i - 7, "[")
             /\ 8 * i - 2 \in LineStarts(text) /\ Begins(text, 8 * i - 2, "=")
  <2>1. 8 * i - 7 \in 1..(8 * n) /\ 8 * i - 2 \in 1..(8 * n) /\ (8 * i - 2) - 1 = 8 * i - 3
    OBVIOUS
  <2>2. 8 * i - 7 = 1 \/ text[(8 * i - 7) - 1] = NL
    <3>1. CASE i = 1
      BY <3>1
    <3>2. CASE i # 1
      <4>1. i - 1 \in 1..n /\ (8 * i - 7) - 1 = 8 * (i - 1)
        BY <3>2
      <4> QED
        BY <1>3, <4>1
    <3> QED
      BY <3>1, <3>2
  <2>3. Header(vs[i])[1] = "[" /\ Settings(vs[i])[1] = "="
    BY PieceFacts
  <2> QED
    BY <1>2, <1>3, <2>1, <2>2, <2>3 DEF LineStarts, Begins
<1>7. ASSUME NEW k \in LineStarts(text), NEW v, HasHeader(text, k, v)
      PROVE  \E i \in 1..n : k = 8 * i - 7 /\ vs[i] = v
  <2>1. PICK m \in 1..(8 * n) : m >= k /\ text[m] = Header(v) /\ \A l \in k..m : text[l] # NL
    BY <1>2, <1>7 DEF HasHeader
  <2>2. PICK i \in 1..n : m = 8 * i - 7
    <3>1. text[m][1] = "["
      BY <2>1, PieceFacts
    <3> QED
      BY <1>4, <3>1
  <2>3. vs[i] = v
    <3>1. Header(vs[i]) = Header(v)
      BY <1>3, <2>1, <2>2
    <3> QED
      BY <3>1, PieceFacts
  <2>4. k \in 1..(8 * n)
    BY <1>2 DEF LineStarts
  <2>5. k = m
    <3> SUFFICES ASSUME k # m PROVE FALSE
      OBVIOUS
    <3>1. i - 1 \in 1..n /\ 8 * (i - 1) = m - 1 /\ m - 1 \in k..m
      BY <2>1, <2>2, <2>4
    <3> QED
      BY <1>3, <2>1, <3>1
  <2> QED
    BY <2>2, <2>3, <2>5
<1>8. ASSUME NEW i \in 1..n PROVE HasHeader(text, 8 * i - 7, vs[i])
  <2>1. 8 * i - 7 \in DOMAIN text /\ text[8 * i - 7] = Header(vs[i]) /\ text[8 * i - 7] # NL
    BY <1>2, <1>3, PieceFacts
  <2>2. \A m \in (8 * i - 7)..(8 * i - 7) : m = 8 * i - 7
    OBVIOUS
  <2> QED
    BY <2>1, <2>2 DEF HasHeader
<1>9. \A k \in LineStarts(text) : k \in 1..(8 * n)
  BY <1>2 DEF LineStarts
<1>10. \A k : k \in LineStarts(text) /\ Begins(text, k, "[") <=> \E i \in 1..n : k = 8 * i - 7
  BY <1>4, <1>6, <1>9 DEF Begins
<1>11. \A k : k \in LineStarts(text) /\ Begins(text, k, "=") <=> \E i \in 1..n : k = 8 * i - 2
  BY <1>5, <1>6, <1>9 DEF Begins
<1>12. \A k \in LineStarts(text) : \A v :
         HasHeader(text, k, v) <=> \E i \in 1..n : k = 8 * i - 7 /\ vs[i] = v
  BY <1>7, <1>8
<1> QED
  BY <1>1, <1>10, <1>11, <1>12

\* The first line with a header is that of the provider's section.
LEMMA HeaderFound ==
  ASSUME NEW vs \in Seq(Providers), Distinct(vs), NEW text, SectionsOf(text, vs), NEW v
  PROVE  /\ \A i \in 1..Len(vs) : vs[i] = v => HeaderLine(text, v) = 8 * i - 7
         /\ v \notin Range(vs) => HeaderLine(text, v) = 0
         /\ HasSection(text, v) <=> v \in Range(vs)
<1>1. PICK found : found = {k \in LineStarts(text) : HasHeader(text, k, v)}
  OBVIOUS
<1>2. HeaderLine(text, v) = IF found = {} THEN 0 ELSE Min(found)
  BY <1>1 DEF HeaderLine
<1>3. \A k : k \in found <=> \E i \in 1..Len(vs) : k = 8 * i - 7 /\ vs[i] = v
  BY <1>1, PlacesOfSections
<1>4. DOMAIN vs = 1..Len(vs) /\ Len(vs) \in Nat
  BY LenProperties
<1>5. ASSUME NEW i \in 1..Len(vs), vs[i] = v PROVE HeaderLine(text, v) = 8 * i - 7
  <2>1. found = {8 * i - 7}
    BY <1>3, <1>5 DEF Distinct
  <2>2. Min({8 * i - 7}) = 8 * i - 7
    <3>1. PICK k : k = 8 * i - 7
      OBVIOUS
    <3>2. k \in Nat
      BY <1>4, <3>1
    <3>3. Min({k}) = k
      BY <3>2 DEF Min
    <3> QED
      BY <3>1, <3>3
  <2> QED
    BY <1>2, <2>1, <2>2
<1>6. ASSUME v \notin Range(vs) PROVE HeaderLine(text, v) = 0
  <2>1. \A i \in 1..Len(vs) : vs[i] # v
    BY <1>4, <1>6 DEF Range
  <2>2. found = {}
    BY <1>3, <2>1
  <2> QED
    BY <1>2, <2>2
<1>7. ASSUME v \in Range(vs) PROVE HeaderLine(text, v) # 0
  <2>1. PICK i \in 1..Len(vs) : vs[i] = v
    BY <1>4, <1>7 DEF Range
  <2> QED
    BY <1>4, <1>5, <2>1
<1> QED
  BY <1>5, <1>6, <1>7 DEF HasSection

\* Exactly the providers of the sections are listed,
LEMMA SectionsListed ==
  ASSUME NEW vs \in Seq(Providers), NEW text, SectionsOf(text, vs)
  PROVE  Listed(text) = Range(vs)
<1>1. PICK heads : heads = {k \in LineStarts(text) : Begins(text, k, "[")}
  OBVIOUS
<1>2. \A k : k \in heads <=> \E i \in 1..Len(vs) : k = 8 * i - 7
  BY <1>1, PlacesOfSections
<1>3. \A i \in 1..Len(vs) : text[8 * i - 7] = Header(vs[i])
  BY DEF SectionsOf
<1>4. \A i \in 1..Len(vs) : text[8 * i - 7][2] = vs[i]
  BY <1>3, PieceFacts
<1>5. Listed(text) = {text[k][2] : k \in heads}
  BY <1>1 DEF Listed
<1>6. Range(vs) = {vs[i] : i \in 1..Len(vs)}
  BY LenProperties DEF Range
<1>7. \A k \in heads : text[k][2] \in Range(vs)
  BY <1>2, <1>4, <1>6
<1>8. ASSUME NEW v \in Range(vs) PROVE \E k \in heads : text[k][2] = v
  <2>1. PICK i \in 1..Len(vs) : vs[i] = v
    BY <1>6
  <2> QED
    BY <1>2, <1>4, <2>1
<1> QED
  BY <1>5, <1>7, <1>8

\* and each is shown with its own settings.
LEMMA SectionsShown ==
  ASSUME NEW vs \in Seq(Providers), Distinct(vs), NEW text, SectionsOf(text, vs), NEW v
  PROVE  Shown(text, v) = {v} \cap Range(vs)
<1>1. CASE v \notin Range(vs)
  BY <1>1, HeaderFound DEF Shown
<1>2. CASE v \in Range(vs)
  <2>1. PICK i \in 1..Len(vs) : vs[i] = v
    BY <1>2, LenProperties DEF Range
  <2>2. PICK n \in Nat : n = Len(vs)
    BY LenProperties
  <2>3. PICK h : h = 8 * i - 7
    OBVIOUS
  <2>4. HeaderLine(text, v) = h /\ h \in Nat /\ h # 0
    BY <2>1, <2>2, <2>3, HeaderFound
  <2>5. PICK ends : ends = {k \in LinesAfter(text, h) : Begins(text, k, "[") /\ ~HasHeader(text, k, v)}
    OBVIOUS
  <2>6. \A k : k \in ends <=> k > h /\ \E l \in 1..n : k = 8 * l - 7 /\ vs[l] # v
    <3>1. \A k : k \in LinesAfter(text, h) <=> k \in LineStarts(text) /\ k > h
      BY DEF LinesAfter
    <3>2. \A k : k \in LineStarts(text) /\ Begins(text, k, "[") <=> \E l \in 1..n : k = 8 * l - 7
      BY <2>2, PlacesOfSections
    <3>3. \A k \in LineStarts(text) : HasHeader(text, k, v) <=> \E l \in 1..n : k = 8 * l - 7 /\ vs[l] = v
      BY <2>2, PlacesOfSections
    <3>4. \A l, m \in 1..n : 8 * l - 7 = 8 * m - 7 => l = m
      OBVIOUS
    <3> QED
      BY <2>5, <3>1, <3>2, <3>3, <3>4
  <2>7. PICK own : own = {j \in LinesAfter(text, h) :
                            (~\E k \in ends : k <= j) /\ Begins(text, j, "=")}
    OBVIOUS
  <2>8. Shown(text, v) = {text[j][2] : j \in own}
    BY <2>4, <2>5, <2>7 DEF Shown
  <2>9. own = {8 * i - 2}
    <3>1. \A j : j \in LineStarts(text) /\ Begins(text, j, "=") <=> \E l \in 1..n : j = 8 * l - 2
      BY <2>2, PlacesOfSections
    <3>2. \A j : j \in own <=> /\ j > h /\ \E l \in 1..n : j = 8 * l - 2
                               /\ ~\E k \in ends : k <= j
      BY <2>7, <3>1 DEF LinesAfter
    <3>3. 8 * i - 2 \in own
      <4>1. ASSUME NEW k \in ends, k <= 8 * i - 2 PROVE FALSE
        <5>1. PICK l \in 1..n : k = 8 * l - 7 /\ vs[l] # v /\ k > h
          BY <2>6, <4>1
        <5>2. l = i
          BY <2>2, <2>3, <4>1, <5>1
        <5> QED
          BY <2>1, <5>1, <5>2
      <4> QED
        BY <2>2, <2>3, <3>2, <4>1
    <3>4. ASSUME NEW j \in own PROVE j = 8 * i - 2
      <4>1. PICK l \in 1..n : j = 8 * l - 2 /\ j > h
        BY <3>2
      <4>2. l >= i
        BY <2>2, <2>3, <4>1
      <4>3. CASE l = i
        BY <4>1, <4>3
      <4>4. CASE l # i
        <5>1. vs[l] # v
          BY <2>1, <2>2, <4>4 DEF Distinct
        <5>2. 8 * l - 7 > h /\ 8 * l - 7 <= j
          BY <2>2, <2>3, <4>1, <4>2, <4>4
        <5>3. 8 * l - 7 \in ends
          BY <2>6, <5>1, <5>2
        <5> QED
          BY <3>2, <5>2, <5>3
      <4> QED
        BY <4>3, <4>4
    <3> QED
      BY <3>3, <3>4
  <2>10. text[8 * i - 2] = Settings(vs[i])
    BY DEF SectionsOf
  <2>11. text[8 * i - 2][2] = v
    BY <2>1, <2>10, PieceFacts
  <2> QED
    BY <1>2, <2>8, <2>9, <2>11
<1> QED
  BY <1>1, <1>2

\* A section that is appended comes after the others.
LEMMA SectionAdded ==
  ASSUME NEW vs \in Seq(Providers), NEW text, SectionsOf(text, vs), NEW v \in Providers
  PROVE  SectionsOf(text \o Section(v), Append(vs, v))
<1>1. PICK n \in Nat : n = Len(vs)
  BY LenProperties
<1>2. PICK part : part = Section(v)
  OBVIOUS
<1>3. /\ part \in Seq(Pieces) /\ Len(part) = 8
      /\ part[1] = Header(v) /\ part[2] = NL /\ part[3] = Note(v) /\ part[4] = NL
      /\ part[5] = NL /\ part[6] = Settings(v) /\ part[7] = NL /\ part[8] = NL
  <2>1. Header(v) \in Pieces /\ Note(v) \in Pieces /\ Settings(v) \in Pieces /\ NL \in Pieces
    BY DEF Pieces, Header, Note, Settings
  <2> QED
    BY <1>2, <2>1 DEF Section
<1>4. PICK more, new : more = text \o part /\ new = Append(vs, v)
  OBVIOUS
<1>5. text \in Seq(Pieces) /\ Len(text) = 8 * n
  BY <1>1 DEF SectionsOf
<1>6. /\ more \in Seq(Pieces) /\ Len(more) = 8 * n + 8
      /\ \A k \in 1..(8 * n) : more[k] = text[k]
      /\ \A k \in 1..8 : more[8 * n + k] = part[k]
  <2>1. /\ more \in Seq(Pieces) /\ Len(more) = Len(text) + Len(part)
        /\ \A k \in 1..(Len(text) + Len(part)) :
             more[k] = IF k <= Len(text) THEN text[k] ELSE part[k - Len(text)]
    BY <1>3, <1>4, <1>5, ConcatProperties
  <2>2. \A k \in 1..(8 * n) : k \in 1..(Len(text) + Len(part)) /\ k <= Len(text)
    BY <1>3, <1>5
  <2>3. \A k \in 1..8 : /\ 8 * n + k \in 1..(Len(text) + Len(part)) /\ ~(8 * n + k <= Len(text))
                        /\ (8 * n + k) - Len(text) = k
    BY <1>3, <1>5
  <2>4. \A k \in 1..8 : more[8 * n + k] = part[k]
    BY <2>1, <2>3
  <2> QED
    BY <1>3, <1>5, <2>1, <2>2, <2>4
<1>7. /\ Len(new) = n + 1 /\ new[n + 1] = v /\ \A i \in 1..n : new[i] = vs[i]
  BY <1>1, <1>4, AppendProperties
<1>8. ASSUME NEW i \in 1..(n + 1)
      PROVE  /\ more[8 * i - 7] = Header(new[i]) /\ more[8 * i - 6] = NL
             /\ more[8 * i - 5] = Note(new[i]) /\ more[8 * i - 4] = NL /\ more[8 * i - 3] = NL
             /\ more[8 * i - 2] = Settings(new[i]) /\ more[8 * i - 1] = NL /\ more[8 * i] = NL
  <2>1. CASE i = n + 1
    <3>1. /\ 8 * i - 7 = 8 * n + 1 /\ 8 * i - 6 = 8 * n + 2 /\ 8 * i - 5 = 8 * n + 3
          /\ 8 * i - 4 = 8 * n + 4 /\ 8 * i - 3 = 8 * n + 5 /\ 8 * i - 2 = 8 * n + 6
          /\ 8 * i - 1 = 8 * n + 7 /\ 8 * i = 8 * n + 8
      BY <2>1
    <3>2. /\ more[8 * n + 1] = part[1] /\ more[8 * n + 2] = part[2] /\ more[8 * n + 3] = part[3]
          /\ more[8 * n + 4] = part[4] /\ more[8 * n + 5] = part[5] /\ more[8 * n + 6] = part[6]
          /\ more[8 * n + 7] = part[7] /\ more[8 * n + 8] = part[8]
      BY <1>6
    <3>3. new[i] = v
      BY <1>7, <2>1
    <3> QED
      BY <1>3, <3>1, <3>2, <3>3
  <2>2. CASE i # n + 1
    <3>1. i \in 1..n /\ \A k \in 0..7 : 8 * i - k \in 1..(8 * n)
      BY <2>2
    <3>2. \A k \in 0..7 : more[8 * i - k] = text[8 * i - k]
      BY <1>6, <3>1
    <3>3. /\ more[8 * i - 7] = text[8 * i - 7] /\ more[8 * i - 6] = text[8 * i - 6]
          /\ more[8 * i - 5] = text[8 * i - 5] /\ more[8 * i - 4] = text[8 * i - 4]
          /\ more[8 * i - 3] = text[8 * i - 3] /\ more[8 * i - 2] = text[8 * i - 2]
          /\ more[8 * i - 1] = text[8 * i - 1] /\ more[8 * i] = text[8 * i]
      <4>1. 8 * i - 0 = 8 * i
        OBVIOUS
      <4> QED
        BY <3>2, <4>1
    <3> QED
      BY <1>1, <1>7, <3>1, <3>3 DEF SectionsOf
  <2> QED
    BY <2>1, <2>2
<1>9. 8 * (n + 1) = 8 * n + 8
  OBVIOUS
<1>10. SectionsOf(more, new)
  BY <1>6, <1>7, <1>8, <1>9 DEF SectionsOf
<1> QED
  BY <1>2, <1>4, <1>10

\* The section that is removed goes with all its lines, and no other line does.
LEMMA SectionRemoved ==
  ASSUME NEW vs \in Seq(Providers), Distinct(vs), NEW text, SectionsOf(text, vs),
         NEW v \in Range(vs)
  PROVE  ApiOK(Removed(text, v), Range(vs) \ {v})
<1>1. PICK n \in Nat : n = Len(vs) /\ DOMAIN vs = 1..n
  BY LenProperties
<1>2. PICK i \in 1..n : vs[i] = v
  BY <1>1 DEF Range
<1>3. PICK h : h = 8 * i - 7
  OBVIOUS
<1>4. text \in Seq(Pieces) /\ Len(text) = 8 * n
  BY <1>1 DEF SectionsOf
<1>5. SectionEnd(text, h) = 8 * i + 1
  <2>1. PICK after : after = LinesAfter(text, h)
    OBVIOUS
  <2>2. 8 * i - 2 \in after
    <3>1. 8 * i - 2 \in LineStarts(text)
      BY <1>1, PlacesOfSections
    <3> QED
      BY <1>3, <2>1, <3>1 DEF LinesAfter
  <2>3. PICK heads : heads = {k \in after : Begins(text, k, "[")}
    OBVIOUS
  <2>4. SectionEnd(text, h) = IF heads = {} THEN Len(text) + 1 ELSE Min(heads)
    BY <2>1, <2>2, <2>3 DEF SectionEnd
  <2>5. \A k : k \in heads <=> k > h /\ \E l \in 1..n : k = 8 * l - 7
    <3>1. \A k : k \in LineStarts(text) /\ Begins(text, k, "[") <=> \E l \in 1..n : k = 8 * l - 7
      BY <1>1, PlacesOfSections
    <3> QED
      BY <2>1, <2>3, <3>1 DEF LinesAfter
  <2>6. CASE i = n
    <3>1. heads = {}
      BY <1>3, <2>5, <2>6
    <3> QED
      BY <1>4, <2>4, <2>6, <3>1
  <2>7. CASE i # n
    <3>1. 8 * i + 1 \in heads
      <4>1. i + 1 \in 1..n /\ 8 * i + 1 = 8 * (i + 1) - 7 /\ 8 * i + 1 > h
        BY <1>3, <2>7
      <4> QED
        BY <2>5, <4>1
    <3>2. \A k \in heads : k \in Nat /\ 8 * i + 1 <= k
      BY <1>3, <2>5
    <3>3. PICK m : m = 8 * i + 1
      OBVIOUS
    <3>4. Min(heads) = m
      BY <3>1, <3>2, <3>3 DEF Min
    <3> QED
      BY <2>4, <3>1, <3>3, <3>4
  <2> QED
    BY <2>6, <2>7
<1>6. HeaderLine(text, v) = h
  BY <1>1, <1>2, <1>3, HeaderFound
<1>7. PICK before, after : /\ before = SubSeq(text, 1, 8 * i - 8)
                           /\ after = SubSeq(text, 8 * i + 1, 8 * n)
  OBVIOUS
<1>8. /\ before \in Seq(Pieces) /\ Len(before) = 8 * i - 8
      /\ \A k \in 1..(8 * i - 8) : before[k] = text[k]
  BY <1>4, <1>7
<1>9. /\ after \in Seq(Pieces) /\ Len(after) = 8 * n - 8 * i
      /\ \A k \in 1..(8 * n - 8 * i) : after[k] = text[8 * i + k]
  BY <1>4, <1>7
<1>10. Ended(after) = after
  <2>1. CASE i = n
    <3>1. after = <<>>
      BY <1>9, <2>1
    <3> QED
      BY <3>1 DEF Ended
  <2>2. CASE i # n
    <3>1. 8 * n - 8 * i \in 1..(8 * n - 8 * i) /\ 8 * i + (8 * n - 8 * i) = 8 * n
      BY <2>2
    <3>2. after[Len(after)] = text[8 * n]
      BY <1>9, <3>1
    <3>3. text[8 * n] = NL
      BY <1>1 DEF SectionsOf
    <3> QED
      BY <3>2, <3>3 DEF Ended, Last
  <2> QED
    BY <2>1, <2>2
<1>11. Removed(text, v) = before \o after
  <2>1. h - 1 = 8 * i - 8
    BY <1>3
  <2> QED
    BY <1>4, <1>5, <1>6, <1>7, <1>10, <2>1 DEF Removed, Before, After
<1>12. PICK new : new = before \o after
  OBVIOUS
<1>13. /\ new \in Seq(Pieces) /\ Len(new) = 8 * n - 8
       /\ \A k \in 1..(8 * n - 8) : new[k] = IF k <= 8 * i - 8 THEN text[k] ELSE text[k + 8]
  <2>1. /\ new \in Seq(Pieces) /\ Len(new) = Len(before) + Len(after)
        /\ \A k \in 1..(Len(before) + Len(after)) :
             new[k] = IF k <= Len(before) THEN before[k] ELSE after[k - Len(before)]
    BY <1>8, <1>9, <1>12, ConcatProperties
  <2>2. Len(before) + Len(after) = 8 * n - 8
    BY <1>8, <1>9
  <2>3. ASSUME NEW k \in 1..(8 * n - 8)
        PROVE  new[k] = IF k <= 8 * i - 8 THEN text[k] ELSE text[k + 8]
    <3>1. CASE k <= 8 * i - 8
      <4>1. k \in 1..(8 * i - 8)
        BY <3>1
      <4>2. new[k] = before[k]
        BY <1>8, <2>1, <2>2, <3>1
      <4> QED
        BY <1>8, <3>1, <4>1, <4>2
    <3>2. CASE ~(k <= 8 * i - 8)
      <4>1. k - (8 * i - 8) \in 1..(8 * n - 8 * i) /\ 8 * i + (k - (8 * i - 8)) = k + 8
        BY <3>2
      <4>2. new[k] = after[k - (8 * i - 8)]
        BY <1>8, <2>1, <2>2, <3>2
      <4> QED
        BY <1>9, <3>2, <4>1, <4>2
    <3> QED
      BY <3>1, <3>2
  <2> QED
    BY <2>1, <2>2, <2>3
<1>14. PICK ws : ws = [k \in 1..(n - 1) |-> IF k < i THEN vs[k] ELSE vs[k + 1]]
  OBVIOUS
<1>15. /\ ws \in Seq(Providers) /\ Len(ws) = n - 1 /\ DOMAIN ws = 1..(n - 1)
       /\ \A k \in 1..(n - 1) : ws[k] = IF k < i THEN vs[k] ELSE vs[k + 1]
  <2>1. \A k \in 1..n : vs[k] \in Providers
    BY <1>1
  <2>2. \A k \in 1..(n - 1) : k \in 1..n /\ k + 1 \in 1..n
    OBVIOUS
  <2>3. ws \in [1..(n - 1) -> Providers]
    BY <1>14, <2>1, <2>2
  <2>4. n - 1 \in Nat
    OBVIOUS
  <2>5. ws \in Seq(Providers) /\ Len(ws) = n - 1
    BY <2>3, <2>4
  <2> QED
    BY <1>14, <2>5
<1>16. Distinct(ws)
  <2>1. ASSUME NEW k \in 1..(n - 1), NEW l \in 1..(n - 1), ws[k] = ws[l], k < l PROVE FALSE
    <3>1. PICK a, b : a = (IF k < i THEN k ELSE k + 1) /\ b = (IF l < i THEN l ELSE l + 1)
      OBVIOUS
    <3>2. a \in 1..n /\ b \in 1..n /\ a # b
      BY <2>1, <3>1
    <3>3. ws[k] = vs[a] /\ ws[l] = vs[b]
      BY <1>15, <3>1
    <3> QED
      BY <1>1, <2>1, <3>2, <3>3 DEF Distinct
  <2>2. \A k, l \in 1..(n - 1) : k < l \/ l < k \/ k = l
    OBVIOUS
  <2> QED
    BY <1>15, <2>1, <2>2 DEF Distinct
<1>17. Range(ws) = Range(vs) \ {v}
  <2>1. ASSUME NEW k \in 1..(n - 1) PROVE ws[k] \in Range(vs) /\ ws[k] # v
    <3>1. CASE k < i
      BY <1>1, <1>2, <1>15, <3>1 DEF Distinct, Range
    <3>2. CASE ~(k < i)
      <4>1. k + 1 \in 1..n /\ k + 1 # i
        BY <3>2
      <4> QED
        BY <1>1, <1>2, <1>15, <3>2, <4>1 DEF Distinct, Range
    <3> QED
      BY <3>1, <3>2
  <2>2. ASSUME NEW k \in 1..n, vs[k] # v PROVE \E l \in 1..(n - 1) : ws[l] = vs[k]
    <3>1. CASE k < i
      <4>1. k \in 1..(n - 1)
        BY <3>1
      <4> QED
        BY <1>15, <3>1, <4>1
    <3>2. CASE ~(k < i)
      <4>1. k # i
        BY <1>2, <2>2
      <4>2. k - 1 \in 1..(n - 1) /\ ~(k - 1 < i) /\ (k - 1) + 1 = k
        BY <3>2, <4>1
      <4> QED
        BY <1>15, <4>2
    <3> QED
      BY <3>1, <3>2
  <2>3. Range(ws) = {ws[k] : k \in 1..(n - 1)} /\ Range(vs) = {vs[k] : k \in 1..n}
    BY <1>1, <1>15 DEF Range
  <2>4. Range(ws) \subseteq Range(vs) \ {v}
    BY <2>1, <2>3
  <2>5. ASSUME NEW x \in Range(vs), x # v PROVE x \in Range(ws)
    <3>1. PICK k \in 1..n : vs[k] = x
      BY <2>3
    <3>2. PICK l \in 1..(n - 1) : ws[l] = x
      BY <2>2, <2>5, <3>1
    <3> QED
      BY <2>3, <3>2
  <2> QED
    BY <2>4, <2>5
<1>18. ASSUME NEW k \in 1..(n - 1)
       PROVE  /\ new[8 * k - 7] = Header(ws[k]) /\ new[8 * k - 6] = NL
              /\ new[8 * k - 5] = Note(ws[k]) /\ new[8 * k - 4] = NL /\ new[8 * k - 3] = NL
              /\ new[8 * k - 2] = Settings(ws[k]) /\ new[8 * k - 1] = NL /\ new[8 * k] = NL
  <2>1. \A l \in 0..7 : 8 * k - l \in 1..(8 * n - 8)
    OBVIOUS
  <2>2. CASE k < i
    <3>1. \A l \in 0..7 : 8 * k - l <= 8 * i - 8
      BY <2>2
    <3>2. \A l \in 0..7 : new[8 * k - l] = text[8 * k - l]
      BY <1>13, <2>1, <3>1
    <3>3. ws[k] = vs[k] /\ k \in 1..n
      BY <1>15, <2>2
    <3>4. /\ text[8 * k - 7] = Header(vs[k]) /\ text[8 * k - 6] = NL
          /\ text[8 * k - 5] = Note(vs[k]) /\ text[8 * k - 4] = NL /\ text[8 * k - 3] = NL
          /\ text[8 * k - 2] = Settings(vs[k]) /\ text[8 * k - 1] = NL /\ text[8 * k] = NL
      <4>1. k \in 1..Len(vs)
        BY <1>1, <3>3
      <4> QED
        BY <4>1 DEF SectionsOf
    <3>5. 8 * k - 0 = 8 * k
      OBVIOUS
    <3>6. /\ new[8 * k - 7] = text[8 * k - 7] /\ new[8 * k - 6] = text[8 * k - 6]
          /\ new[8 * k - 5] = text[8 * k - 5] /\ new[8 * k - 4] = text[8 * k - 4]
          /\ new[8 * k - 3] = text[8 * k - 3] /\ new[8 * k - 2] = text[8 * k - 2]
          /\ new[8 * k - 1] = text[8 * k - 1] /\ new[8 * k] = text[8 * k]
      BY <3>2, <3>5
    <3> QED
      BY <3>3, <3>4, <3>6
  <2>3. CASE ~(k < i)
    <3>1. \A l \in 0..7 : ~(8 * k - l <= 8 * i - 8)
      BY <2>3
    <3>2. \A l \in 0..7 : new[8 * k - l] = text[(8 * k - l) + 8]
      BY <1>13, <2>1, <3>1
    <3>3. \A l \in 0..7 : (8 * k - l) + 8 = 8 * (k + 1) - l
      OBVIOUS
    <3>4. \A l \in 0..7 : new[8 * k - l] = text[8 * (k + 1) - l]
      BY <3>2, <3>3
    <3>5. ws[k] = vs[k + 1] /\ k + 1 \in 1..n
      BY <1>15, <2>3
    <3>6. PICK m : m = k + 1
      OBVIOUS
    <3>7. /\ text[8 * m - 7] = Header(vs[m]) /\ text[8 * m - 6] = NL
          /\ text[8 * m - 5] = Note(vs[m]) /\ text[8 * m - 4] = NL /\ text[8 * m - 3] = NL
          /\ text[8 * m - 2] = Settings(vs[m]) /\ text[8 * m - 1] = NL /\ text[8 * m] = NL
      <4>1. m \in 1..Len(vs)
        BY <1>1, <3>5, <3>6
      <4> QED
        BY <4>1 DEF SectionsOf
    <3>8. 8 * k - 0 = 8 * k /\ 8 * m - 0 = 8 * m
      BY <3>6
    <3>9. \A l \in 0..7 : new[8 * k - l] = text[8 * m - l]
      BY <3>4, <3>6
    <3>10. /\ new[8 * k - 7] = text[8 * m - 7] /\ new[8 * k - 6] = text[8 * m - 6]
           /\ new[8 * k - 5] = text[8 * m - 5] /\ new[8 * k - 4] = text[8 * m - 4]
           /\ new[8 * k - 3] = text[8 * m - 3] /\ new[8 * k - 2] = text[8 * m - 2]
           /\ new[8 * k - 1] = text[8 * m - 1] /\ new[8 * k] = text[8 * m]
      BY <3>8, <3>9
    <3> QED
      BY <3>5, <3>6, <3>7, <3>10
  <2> QED
    BY <2>2, <2>3
<1>19. SectionsOf(new, ws)
  <2>1. 8 * (n - 1) = 8 * n - 8
    OBVIOUS
  <2> QED
    BY <1>13, <1>15, <1>18, <2>1 DEF SectionsOf
<1> QED
  BY <1>11, <1>12, <1>15, <1>16, <1>17, <1>19 DEF ApiOK

(***************************************************************************)
(* The file of the providers                                               *)
(***************************************************************************)
ApiPaths == Paths \ Plain
TextAt(path) == IF files[path] = Absent THEN <<>> ELSE files[path]

\* The file is what was said of it unless it is muddled or being written.
ApiPathOK(path) ==
  path \notin muddled /\ (\A q \in Procs : ~Writing(q, path)) => ApiOK(TextAt(path), promise[path])

\* So is what an archive holds of it.
ApiArchiveOK(a) ==
  a # NoArchive =>
    \A n \in DOMAIN a : n[1] = "api" /\ ~a[n].muddled => ApiOK(a[n].text, a[n].said)

\* A command that adds a provider has a section for one that has none; a command
\* that removes one has the text without it, and only writes over nothing.
ApiJobOK(j) ==
  /\ j.op \in {"provide", "withdraw"} /\ j.path \notin muddled =>
       /\ j.op = "provide" /\ ~j.again =>
            /\ j.at = "append" /\ j.text = Section(j.provider)
            /\ j.provider \in Providers /\ j.provider \notin promise[j.path]
       /\ j.op = "withdraw" =>
            j.at # "append" /\ ~j.again /\ ApiOK(j.text, promise[j.path] \ {j.provider})
       /\ j.at = "write" => files[j.path] = <<>>
  /\ j.at = "extract" => ApiArchiveOK(j.of)

ApiArchiveInv == \A a \in ArchiveNames : ApiArchiveOK(archives[a])
ApiJobInv == \A p \in Procs : ApiJobOK(job[p])
ApiPathInv == \A path \in ApiPaths : ApiPathOK(path)

ApiInv == ApiPathInv /\ ApiJobInv /\ ApiArchiveInv

\* A file of the providers that a step of p leaves alone, and one that it changes.
ApiSame(p, path) ==
  /\ files'[path] = files[path] /\ promise'[path] = promise[path]
  /\ path \notin muddled' => path \notin muddled /\ ~Writing(p, path)
ApiChanged(p, path) ==
  /\ path \in job[p].on
  /\ path \in muddled /\ path \in OthersOn(p) => path \in muddled'
  /\ ApiPathOK(path)'

LEMMA ApiJobMade ==
  ASSUME NEW p \in Procs, NEW j, job'[p] = j, ApiJobOK(j)'
  PROVE  ApiJobOK(job[p])'
  BY DEF ApiJobOK

\* What is left to show of a step: its command and the files it changes.
LEMMA ApiKept ==
  ASSUME IInv, ApiInv, NEW p \in Procs, NEW j, job' = [job EXCEPT ![p] = j], ApiJobOK(j)',
         UNCHANGED archives \/ ApiArchiveInv',
         \A path \in ApiPaths : ApiSame(p, path) \/ ApiChanged(p, path)
  PROVE  ApiInv'
<1>1. job'[p] = j /\ \A q \in Procs \ {p} : job'[q] = job[q]
  BY DEF IInv, TypeOK
<1>2. ASSUME NEW path \in ApiPaths PROVE ApiPathOK(path)'
  <2>1. CASE ApiSame(p, path)
    <3>1. ASSUME path \notin muddled', \A q \in Procs : ~Writing(q, path)'
          PROVE  ApiOK(TextAt(path), promise[path])'
      <4>1. path \notin muddled /\ \A q \in Procs : ~Writing(q, path)
        BY <1>1, <2>1, <3>1 DEF ApiSame, Writing
      <4>2. ApiOK(TextAt(path), promise[path])
        BY <4>1 DEF ApiInv, ApiPathInv, ApiPathOK
      <4>3. TextAt(path)' = TextAt(path) /\ promise'[path] = promise[path]
        BY <2>1 DEF ApiSame, TextAt
      <4> QED
        BY <4>2, <4>3
    <3> QED
      BY <3>1 DEF ApiPathOK
  <2>2. CASE ApiChanged(p, path)
    BY <2>2 DEF ApiChanged
  <2> QED
    BY <2>1, <2>2
<1>3. ASSUME NEW q \in Procs, q # p PROVE ApiJobOK(job[q])'
  <2>1. ApiJobOK(job[q]) /\ job'[q] = job[q]
    BY <1>1, <1>3 DEF ApiInv, ApiJobInv
  <2>2. ASSUME job[q].op \in {"provide", "withdraw"}, job[q].path \notin muddled'
        PROVE  /\ job[q].path \notin muddled /\ files'[job[q].path] = files[job[q].path]
               /\ promise'[job[q].path] = promise[job[q].path]
    <3>1. PICK path : path = job[q].path
      OBVIOUS
    <3>2. path \in ApiPaths /\ path \in job[q].on
      BY <2>2, <3>1, JobKinds DEF Apis, ApiPaths
    <3>3. ~ApiChanged(p, path)
      <4> SUFFICES ASSUME ApiChanged(p, path) PROVE FALSE
        OBVIOUS
      <4>1. path \in OthersOn(p) /\ path \in muddled
        BY <1>3, <3>2 DEF OthersOn, ApiChanged, IInv, ShareInv
      <4> QED
        BY <2>2, <3>1, <4>1 DEF ApiChanged
    <3> QED
      BY <2>2, <3>1, <3>2, <3>3 DEF ApiSame
  <2>3. PICK j1 : j1 = job[q]
    OBVIOUS
  <2>4. ApiJobOK(j1)'
    <3>1. ApiJobOK(j1)
      BY <2>1, <2>3
    <3>2. j1.op \in {"provide", "withdraw"} /\ j1.path \notin muddled' =>
            /\ j1.path \notin muddled /\ files'[j1.path] = files[j1.path]
            /\ promise'[j1.path] = promise[j1.path]
      BY <2>2, <2>3
    <3> QED
      BY <3>1, <3>2 DEF ApiJobOK
  <2> QED
    BY <2>1, <2>3, <2>4, ApiJobMade
<1>4. ApiJobInv'
  BY <1>1, <1>3, ApiJobMade DEF ApiJobInv
<1>5. ApiArchiveInv'
  BY DEF ApiInv, ApiArchiveInv
<1> QED
  BY <1>2, <1>4, <1>5 DEF ApiInv, ApiPathInv

\* A job that neither writes the file nor puts one in place, and a step to it.
OtherJob(j) == j.op \notin {"provide", "withdraw"} /\ j.at # "extract"

LEMMA ApiOther ==
  ASSUME IInv, ApiInv, NEW p \in Procs, NEW j, job' = [job EXCEPT ![p] = j],
         OtherJob(j), UNCHANGED archives \/ ApiArchiveInv',
         \A path \in ApiPaths : ApiSame(p, path)
  PROVE  ApiInv'
<1>1. ApiJobOK(j)'
  BY DEF ApiJobOK, OtherJob
<1> QED
  BY <1>1, ApiKept

(***************************************************************************)
(* The commands on it                                                      *)
(***************************************************************************)
LEMMA ApiStarted ==
  ASSUME IInv, ApiInv, NEW p \in Procs, NEW j, Start(p, j), ApiJobOK(j)'
  PROVE  ApiInv'
<1>1. /\ job' = [job EXCEPT ![p] = j] /\ muddled \subseteq muddled'
      /\ UNCHANGED <<files, archives, promise>>
  BY DEF Start
<1>2. \A path \in ApiPaths : ApiSame(p, path)
  BY <1>1 DEF Start, Idle, ApiSame, Writing
<1> QED
  BY <1>1, <1>2, ApiKept

\* A command that finds the file not muddled is the only one on it.
LEMMA AloneOn ==
  ASSUME IInv, ApiInv, NEW p \in Procs, NEW j, Start(p, j), NEW path \in ApiPaths,
         path \in j.on, path \notin muddled'
  PROVE  path \notin muddled /\ ApiOK(TextAt(path), promise[path])
<1>1. path \notin muddled /\ path \notin OthersOn(p) /\ job[p] = Idle
  BY DEF Start
<1>2. ASSUME NEW q \in Procs, Writing(q, path) PROVE FALSE
  <2>1. path \in job[q].on
    BY <1>2, JobFacts DEF Writing, IInv
  <2>2. q # p
    BY <1>1, <1>2 DEF Writing, Idle
  <2> QED
    BY <1>1, <2>1, <2>2 DEF OthersOn
<1> QED
  BY <1>1, <1>2 DEF ApiInv, ApiPathInv, ApiPathOK

\* What has a section is what was added.
LEMMA SectionsKnown ==
  ASSUME NEW text, NEW said, ApiOK(text, said), NEW v \in Providers
  PROVE  /\ HasSection(text, v) <=> v \in said
         /\ v \in said => ApiOK(Removed(text, v), said \ {v})
         /\ v \notin said => ApiOK(text \o Section(v), said \cup {v})
<1>1. PICK vs \in Seq(Providers) : Distinct(vs) /\ said = Range(vs) /\ SectionsOf(text, vs)
  BY DEF ApiOK
<1>2. HasSection(text, v) <=> v \in said
  BY <1>1, HeaderFound
<1>3. ASSUME v \in said PROVE ApiOK(Removed(text, v), said \ {v})
  BY <1>1, <1>3, SectionRemoved
<1>4. ASSUME v \notin said PROVE ApiOK(text \o Section(v), said \cup {v})
  <2>1. PICK ws : ws = Append(vs, v)
    OBVIOUS
  <2>2. PICK n \in Nat : n = Len(vs) /\ DOMAIN vs = 1..n
    BY LenProperties
  <2>3. /\ ws \in Seq(Providers) /\ Len(ws) = n + 1 /\ DOMAIN ws = 1..(n + 1) /\ ws[n + 1] = v
        /\ \A i \in 1..n : ws[i] = vs[i]
    BY <2>1, <2>2, AppendProperties
  <2>4. \A i \in 1..n : vs[i] # v
    BY <1>1, <1>4, <2>2 DEF Range
  <2>5. Distinct(ws)
    <3>1. \A i \in 1..(n + 1) : i \in 1..n \/ i = n + 1
      OBVIOUS
    <3> QED
      BY <1>1, <2>2, <2>3, <2>4, <3>1 DEF Distinct
  <2>6. Range(ws) = said \cup {v}
    <3>1. Range(ws) = {ws[i] : i \in 1..(n + 1)} /\ Range(vs) = {vs[i] : i \in 1..n}
      BY <2>2, <2>3 DEF Range
    <3>2. \A i \in 1..(n + 1) : i \in 1..n \/ i = n + 1
      OBVIOUS
    <3>3. n + 1 \in 1..(n + 1) /\ \A i \in 1..n : i \in 1..(n + 1)
      OBVIOUS
    <3> QED
      BY <1>1, <2>3, <3>1, <3>2, <3>3
  <2>7. SectionsOf(text \o Section(v), ws)
    BY <1>1, <2>1, SectionAdded
  <2> QED
    BY <2>3, <2>5, <2>6, <2>7 DEF ApiOK
<1> QED
  BY <1>2, <1>3, <1>4

\* The file of the providers in a directory.
LEMMA ApiPathsAre ==
  ASSUME NEW d \in {"etc", "home"}
  PROVE  ApiFile(d) \in ApiPaths /\ TextAt(ApiFile(d)) = ApiText(d)
  BY PlainMade DEF ApiPaths, TextAt, ApiText

\* A command that adds a provider finds whether it has a section,
LEMMA AddStarts ==
  ASSUME IInv, ApiInv, NEW p \in Procs, NEW d \in {"etc", "home"}, NEW v \in Providers,
         addProvider(p, d, v)
  PROVE  ApiInv'
<1>1. PICK path, old, text : path = ApiFile(d) /\ old = HasSection(ApiText(d), v) /\ text = ApiText(d)
  OBVIOUS
<1>2. path \in ApiPaths /\ TextAt(path) = text
  BY <1>1, ApiPathsAre
<1> DEFINE j == [at |-> IF old THEN "open" ELSE "append", op |-> "provide", path |-> path,
                 on |-> {path}, provider |-> v, again |-> old,
                 text |-> IF old THEN Replaced(text, v) ELSE Section(v)]
<1>3. Start(p, j)
  BY <1>1 DEF addProvider, Command
<1>4. UNCHANGED <<files, promise>>
  BY <1>3 DEF Start
<1>5. ASSUME path \notin muddled', ~old PROVE v \notin promise'[path]
  <2>1. ApiOK(text, promise[path])
    BY <1>2, <1>3, <1>5, AloneOn
  <2> QED
    BY <1>1, <1>4, <1>5, <2>1, SectionsKnown
<1>6. ApiJobOK(j)'
  BY <1>5 DEF ApiJobOK
<1> HIDE DEF j
<1> QED
  BY <1>3, <1>6, ApiStarted

\* one that removes it finds the text without it,
LEMMA RemoveStarts ==
  ASSUME IInv, ApiInv, NEW p \in Procs, NEW d \in {"etc", "home"}, NEW v \in Providers,
         removeProvider(p, d, v)
  PROVE  ApiInv'
<1>1. PICK path, text : path = ApiFile(d) /\ text = ApiText(d)
  OBVIOUS
<1>2. path \in ApiPaths /\ TextAt(path) = text
  BY <1>1, ApiPathsAre
<1> DEFINE j == [at |-> "open", op |-> "withdraw", path |-> path, on |-> {path}, provider |-> v,
                 again |-> FALSE, text |-> Removed(text, v)]
<1>3. Start(p, j) /\ HasSection(text, v)
  BY <1>1 DEF removeProvider, Command
<1>4. UNCHANGED <<files, promise>>
  BY <1>3 DEF Start
<1>5. ASSUME path \notin muddled' PROVE ApiOK(Removed(text, v), promise[path] \ {v})
  <2>1. ApiOK(text, promise[path])
    BY <1>2, <1>3, <1>5, AloneOn
  <2> QED
    BY <1>3, <2>1, SectionsKnown
<1>6. ApiJobOK(j)'
  BY <1>4, <1>5 DEF ApiJobOK
<1> HIDE DEF j
<1> QED
  BY <1>3, <1>6, ApiStarted

\* and the other commands have nothing of it.
LEMMA OtherStarts ==
  ASSUME IInv, ApiInv, NEW p \in Procs, NEW j, Start(p, j), OtherJob(j)
  PROVE  ApiInv'
<1>1. ApiJobOK(j)'
  BY DEF ApiJobOK, OtherJob
<1> QED
  BY <1>1, ApiStarted

LEMMA ApiStarting ==
  ASSUME IInv, ApiInv, NEW p \in Procs, Starts(p)
  PROVE  ApiInv'
<1>1. DirsOf[p] \subseteq {"etc", "home"}
  BY ConfigAssumption DEF ConfigAssumption
<1>2. ASSUME NEW path, NEW text, Start(p, Creation(path, text)) PROVE ApiInv'
  <2>1. OtherJob(Creation(path, text))
    BY DEF OtherJob, Creation
  <2> QED
    BY <1>2, <2>1, OtherStarts
<1>3. ASSUME NEW path, NEW flag, Rewrite(p, path, flag) PROVE ApiInv'
  <2> DEFINE j == [at |-> "read", op |-> "flag", path |-> path, on |-> {path}, flag |-> flag]
  <2>1. Start(p, j) /\ OtherJob(j)
    BY <1>3 DEF Rewrite, Command, OtherJob
  <2> HIDE DEF j
  <2> QED
    BY <2>1, OtherStarts
<1>4. ASSUME NEW path, NEW victim, Removal(p, path, victim) PROVE ApiInv'
  <2> DEFINE j == [at |-> "unlink", op |-> "remove", path |-> path, victim |-> victim,
                   on |-> {path, victim}]
  <2>1. Start(p, j) /\ OtherJob(j)
    BY <1>4 DEF Removal, Command, OtherJob
  <2> HIDE DEF j
  <2> QED
    BY <2>1, OtherStarts
<1>5. ASSUME NEW n, NEW given, Start(p, AccountFile(n, given)) PROVE ApiInv'
  <2>1. OtherJob(AccountFile(n, given))
    BY DEF OtherJob, AccountFile
  <2> QED
    BY <1>5, <2>1, OtherStarts
<1>6. ASSUME NEW d, backupConfig(p, d) PROVE ApiInv'
  <2> DEFINE j == [at |-> "tar", op |-> "backup", dir |-> d, on |-> {Backup}, to |-> Backup,
                   todo |-> {}]
  <2>1. Start(p, j) /\ OtherJob(j)
    BY <1>6 DEF backupConfig, Command, OtherJob
  <2> HIDE DEF j
  <2> QED
    BY <2>1, OtherStarts
<1>7. ASSUME NEW d, NEW a, restoreConfig(p, d, a) PROVE ApiInv'
  <2> DEFINE j == [at |-> "tar", op |-> "restore", dir |-> d,
                   on |-> InDir(d) \cup {PreRestore(second')},
                   to |-> PreRestore(second'), todo |-> {}, from |-> a]
  <2>1. Start(p, j)
    BY <1>7 DEF restoreConfig
  <2>2. OtherJob(j)
    BY DEF OtherJob
  <2>3. PICK i : i = j
    OBVIOUS
  <2> HIDE DEF j
  <2> QED
    BY <2>1, <2>2, <2>3, OtherStarts
<1>8. ASSUME NEW d \in DirsOf[p], NEW n,
             \/ addDomain(p, d, n) \/ enableDomain(p, d, n) \/ disableDomain(p, d, n)
             \/ removeDomain(p, d, n) \/ addUser(p, d, n) \/ enableUser(p, d, n)
             \/ disableUser(p, d, n) \/ removeUser(p, d, n)
             \/ removeTemplate(p, d, n) \/ removeAddressTemplate(p, d, n)
      PROVE  ApiInv'
  BY <1>2, <1>3, <1>4, <1>8
  DEF addDomain, enableDomain, disableDomain, removeDomain, addUser, enableUser, disableUser,
      removeUser, removeTemplate, removeAddressTemplate, Command, DomainFile, UserFile
<1>9. ASSUME NEW d \in DirsOf[p], setupGlobalConfig(p, d) PROVE ApiInv'
  BY <1>2, <1>9 DEF setupGlobalConfig
<1>10. ASSUME NEW n,
              \/ createTemplate(p, n) \/ createAddressTemplate(p, n) \/ setupOAuth2(p, n)
              \/ \E given \in JsonTexts : addServiceAccount(p, n, given)
       PROVE  ApiInv'
  BY <1>2, <1>5, <1>10
  DEF createTemplate, createAddressTemplate, setupOAuth2, addServiceAccount, Command, OAuth2File
<1>11. ASSUME NEW d \in DirsOf[p], NEW v \in Providers, addProvider(p, d, v) \/ removeProvider(p, d, v)
       PROVE  ApiInv'
  BY <1>1, <1>11, AddStarts, RemoveStarts
<1> QED
  BY <1>6, <1>7, <1>8, <1>9, <1>10, <1>11 DEF Starts

\* The step that opens the file, or another one.
LEMMA ApiOpens ==
  ASSUME IInv, ApiInv, NEW p \in Procs, Open(p)
  PROVE  ApiInv'
<1>1. PICK path, j : path = job[p].path /\ j = [job[p] EXCEPT !.at = "write"]
  OBVIOUS
<1>2. /\ job[p].at = "open" /\ path \in Paths /\ path \in job[p].on
  BY <1>1, WriterKinds DEF Open
<1>3. /\ job' = [job EXCEPT ![p] = j] /\ UNCHANGED <<archives, promise, muddled>>
      /\ files'[path] = <<>> /\ \A x \in Paths \ {path} : files'[x] = files[x]
  BY <1>1, <1>2 DEF Open, Goto, IInv, TypeOK
<1>4. /\ "at" \in DOMAIN job[p] /\ j.at = "write" /\ j.op = job[p].op /\ j.path = job[p].path
      /\ j.op \in {"provide", "withdraw"} =>
           /\ j.again = job[p].again /\ j.provider = job[p].provider /\ j.text = job[p].text
  BY <1>1, <1>2, WriterKinds DEF Creates, Flags, Accounts, Apis
<1>5. ASSUME path \in ApiPaths PROVE ApiChanged(p, path)
  <2>1. Writing(p, path)'
    BY <1>1, <1>3, <1>4 DEF Writing, IInv, TypeOK
  <2> QED
    BY <1>2, <1>3, <2>1 DEF ApiChanged, ApiPathOK
<1>6. \A x \in ApiPaths \ {path} : ApiSame(p, x)
  BY <1>2, <1>3 DEF ApiSame, Writing, ApiPaths
<1>7. ApiJobOK(job[p])
  BY DEF ApiInv, ApiJobInv
<1>8. ApiJobOK(j)'
  BY <1>1, <1>2, <1>3, <1>4, <1>7 DEF ApiJobOK
<1> QED
  BY <1>3, <1>5, <1>6, <1>8, ApiKept

\* A command that has written its file is done with it.
LEMMA Proceeding ==
  ASSUME IInv, NEW p \in Procs, Proceed(p), job[p].at = "write"
  PROVE  \E j : job' = [job EXCEPT ![p] = j] /\ OtherJob(j)
<1>1. CASE Kind(job[p].path) = "json"
  <2>1. Accounts(job[p])
    <3>1. Creates(job[p]) \/ Flags(job[p]) \/ Accounts(job[p]) \/ Apis(job[p])
      BY WriterKinds
    <3> QED
      BY <1>1, <3>1 DEF Creates, Flags, Apis, Plain
  <2>2. PICK j : j = [job[p] EXCEPT !.at = "open", !.path = Conf(job[p].path[3]), !.text = AccountText]
    OBVIOUS
  <2>3. job' = [job EXCEPT ![p] = j]
    BY <1>1, <2>2 DEF Proceed
  <2>4. OtherJob(j)
    BY <2>1, <2>2 DEF OtherJob, Accounts
  <2> QED
    BY <2>3, <2>4
<1>2. CASE Kind(job[p].path) # "json"
  <2>1. job' = [job EXCEPT ![p] = Idle] /\ OtherJob(Idle)
    BY <1>2 DEF Proceed, End, OtherJob, Idle
  <2> QED
    BY <2>1
<1> QED
  BY <1>1, <1>2

\* A stream whose file has no name any more muddles what the name stands for.
LEMMA ApiLost ==
  ASSUME IInv, ApiInv, NEW p \in Procs, WriteLost(p)
  PROVE  ApiInv'
<1>1. PICK path : path = job[p].path
  OBVIOUS
<1>2. /\ Creates(job[p]) \/ Flags(job[p]) \/ Accounts(job[p]) \/ Apis(job[p])
      /\ job[p].at = "write"
  BY WriterKinds DEF WriteLost
<1>3. PICK j : job' = [job EXCEPT ![p] = j] /\ OtherJob(j)
  BY <1>2, Proceeding DEF WriteLost
<1>4. /\ UNCHANGED <<files, archives, promise>> /\ muddled' = muddled \cup {path}
  BY <1>1 DEF WriteLost
<1>5. \A x \in ApiPaths : ApiSame(p, x)
  BY <1>1, <1>4 DEF ApiSame, Writing
<1> QED
  BY <1>3, <1>4, <1>5, ApiOther

\* A step that ends a command and leaves the files, which are then muddled if they
\* were being written.
LEMMA ApiEnds ==
  ASSUME IInv, ApiInv, NEW p \in Procs,
         OpenFails(p) \/ Crash(p) \/ SaveFails(p)
  PROVE  ApiInv'
<1>1. PICK j : j = Idle
  OBVIOUS
<1>2. OtherJob(j)
  BY <1>1 DEF OtherJob, Idle
<1>3. job' = [job EXCEPT ![p] = j] /\ UNCHANGED <<files, archives, promise>>
  BY <1>1 DEF OpenFails, Crash, SaveFails, End
<1>4. muddled \subseteq muddled' /\ (job[p].at = "write" => job[p].path \in muddled')
  BY DEF OpenFails, Crash, SaveFails
<1>5. \A path \in ApiPaths : ApiSame(p, path)
  BY <1>3, <1>4 DEF ApiSame, Writing
<1> QED
  BY <1>2, <1>3, <1>5, ApiOther

\* A command whose write fails muddles the file.
LEMMA ApiWriteFails ==
  ASSUME IInv, ApiInv, NEW p \in Procs, WriteFails(p)
  PROVE  ApiInv'
<1>1. PICK path, j : path = job[p].path /\ j = Idle
  OBVIOUS
<1>2. path \in Paths /\ path \in job[p].on
  BY <1>1, WriterKinds DEF WriteFails
<1>3. /\ job' = [job EXCEPT ![p] = j] /\ UNCHANGED <<archives, promise>>
      /\ muddled' = muddled \cup {path} /\ \A x \in Paths \ {path} : files'[x] = files[x]
  BY <1>1 DEF WriteFails, End, IInv, TypeOK
<1>4. path \in ApiPaths => ApiChanged(p, path)
  BY <1>2, <1>3 DEF ApiChanged, ApiPathOK
<1>5. \A x \in ApiPaths \ {path} : ApiSame(p, x)
  BY <1>1, <1>3 DEF ApiSame, Writing, ApiPaths
<1>6. ApiJobOK(j)'
  BY <1>1 DEF ApiJobOK, Idle
<1> QED
  BY <1>3, <1>4, <1>5, <1>6, ApiKept

\* What is written over nothing is all that the file holds.
LEMMA OverNothing ==
  ASSUME NEW text \in Seq(Pieces)
  PROVE  Overlay(text, <<>>) = text
<1>1. SubSeq(<<>>, Len(text) + 1, Len(<<>>)) = <<>>
  <2>1. Len(text) \in Nat /\ Len(<<>>) = 0
    BY LenProperties
  <2> QED
    BY <2>1
<1> QED
  BY <1>1 DEF Overlay

\* A text is no file that is not there.
LEMMA TextThere ==
  ASSUME NEW text, NEW said, ApiOK(text, said)
  PROVE  text \in Seq(Pieces) /\ text # Absent
  BY AbsentAssumption DEF ApiOK, SectionsOf, AbsentAssumption

\* The write adds the section, or leaves the text without it.
LEMMA ApiWrites ==
  ASSUME IInv, ApiInv, NEW p \in Procs, WriteApi(p)
  PROVE  ApiInv'
<1>1. PICK path, j, v : path = job[p].path /\ j = Idle /\ v = job[p].provider
  OBVIOUS
<1>2. Apis(job[p])
  BY JobKinds DEF WriteApi
<1>3. path \in ApiPaths /\ path \in job[p].on
  BY <1>1, <1>2 DEF Apis, ApiPaths
<1>4. PICK said, new :
        /\ said = (IF job[p].op = "provide" THEN promise[path] \cup {v} ELSE promise[path] \ {v})
        /\ new = Written(p, job[p].text)
  OBVIOUS
<1>5. /\ job' = [job EXCEPT ![p] = j] /\ UNCHANGED archives
      /\ muddled' = IF job[p].again THEN muddled \cup {path} ELSE muddled
      /\ promise'[path] = said /\ files'[path] = new
      /\ \A x \in Paths \ {path} : files'[x] = files[x] /\ promise'[x] = promise[x]
  BY <1>1, <1>3, <1>4 DEF WriteApi, End, IInv, TypeOK, ApiPaths
<1>6. ASSUME path \notin muddled' PROVE ApiOK(new, said)
  <2>1. path \notin muddled /\ ~job[p].again
    BY <1>5, <1>6
  <2>2. ApiJobOK(job[p])
    BY DEF ApiInv, ApiJobInv
  <2>3. CASE job[p].op = "provide"
    <3>1. /\ job[p].at = "append" /\ job[p].text = Section(v)
          /\ v \in Providers /\ v \notin promise[path]
      BY <1>1, <2>1, <2>2, <2>3 DEF ApiJobOK
    <3>2. new = TextAt(path) \o Section(v)
      BY <1>1, <1>4, <3>1 DEF Written, TextAt
    <3>3. ApiOK(TextAt(path), promise[path])
      <4>1. ASSUME NEW q \in Procs, Writing(q, path) PROVE FALSE
        <5>1. path \in job[q].on
          BY <4>1, JobFacts DEF Writing, IInv
        <5>2. q = p
          BY <1>3, <2>1, <5>1 DEF IInv, ShareInv
        <5> QED
          BY <3>1, <4>1, <5>2 DEF Writing
      <4> QED
        BY <1>3, <2>1, <4>1 DEF ApiInv, ApiPathInv, ApiPathOK
    <3>4. said = promise[path] \cup {v}
      BY <1>4, <2>3
    <3>5. PICK text, told : text = TextAt(path) /\ told = promise[path]
      OBVIOUS
    <3>6. ApiOK(text \o Section(v), told \cup {v})
      BY <3>1, <3>3, <3>5, SectionsKnown
    <3> QED
      BY <3>2, <3>4, <3>5, <3>6
  <2>4. CASE job[p].op = "withdraw"
    <3>1. job[p].at # "append" /\ ApiOK(job[p].text, said)
      BY <1>1, <1>4, <2>1, <2>2, <2>4 DEF ApiJobOK
    <3>2. job[p].at = "write" /\ files[path] = <<>>
      BY <1>1, <2>1, <2>2, <2>4, <3>1 DEF ApiJobOK, WriteApi
    <3>3. new = Overlay(job[p].text, <<>>)
      BY <1>1, <1>4, <3>2 DEF Written
    <3>4. new = job[p].text
      BY <3>1, <3>3, TextThere, OverNothing
    <3> QED
      BY <3>1, <3>4
  <2> QED
    BY <1>2, <2>3, <2>4 DEF Apis
<1>7. ApiChanged(p, path)
  <2>1. ASSUME path \notin muddled' PROVE ApiOK(TextAt(path), promise[path])'
    <3>1. new # Absent
      BY <1>6, <2>1, TextThere
    <3>2. TextAt(path)' = new
      BY <1>5, <3>1 DEF TextAt
    <3> QED
      BY <1>5, <1>6, <2>1, <3>2
  <2> QED
    BY <1>3, <1>5, <2>1 DEF ApiChanged, ApiPathOK
<1>8. \A x \in ApiPaths \ {path} : ApiSame(p, x)
  BY <1>1, <1>5 DEF ApiSame, Writing, ApiPaths
<1>9. ApiJobOK(j)'
  BY <1>1 DEF ApiJobOK, Idle
<1> QED
  BY <1>5, <1>7, <1>8, <1>9, ApiKept

(***************************************************************************)
(* The other files                                                         *)
(***************************************************************************)
\* A step of a command that changes another file.
LEMMA ApiElsewhere ==
  ASSUME IInv, ApiInv, NEW p \in Procs, NEW j, job' = [job EXCEPT ![p] = j], OtherJob(j),
         job[p].op \notin {"provide", "withdraw"},
         UNCHANGED archives, NEW path \in Plain,
         \A x \in Paths \ {path} : files'[x] = files[x] /\ promise'[x] = promise[x],
         muddled \ muddled' \subseteq {path}
  PROVE  ApiInv'
<1>1. ASSUME NEW x \in ApiPaths PROVE ~Writing(p, x)
  <2> SUFFICES ASSUME Writing(p, x) PROVE FALSE
    OBVIOUS
  <2>1. Creates(job[p]) \/ Flags(job[p]) \/ Accounts(job[p]) \/ Apis(job[p])
    BY WriterKinds DEF Writing
  <2>2. job[p].path \in Plain
    BY <2>1, KeyPath DEF Creates, Flags, Accounts, Apis
  <2> QED
    BY <2>2 DEF Writing, ApiPaths
<1>2. \A x \in ApiPaths : ApiSame(p, x)
  BY <1>1 DEF ApiSame, ApiPaths
<1> QED
  BY <1>2, ApiOther

\* No command on another kind of file touches the file of the providers.
LEMMA ApiPlain ==
  ASSUME IInv, ApiInv, NEW p \in Procs,
         \/ WriteNew(p) \/ ReadLines(p) \/ WriteFlag(p) \/ Unlink(p) \/ CopyKey(p) \/ WriteAccount(p)
  PROVE  ApiInv'
<1> USE DEF At, IInv, TypeOK
<1>1. CASE WriteNew(p)
  <2>1. PICK path, j : path = job[p].path /\ j = Idle
    OBVIOUS
  <2>2. path \in Plain /\ job[p].op = "create"
    BY <1>1, <2>1, JobKinds DEF WriteNew, Creates
  <2>3. /\ job' = [job EXCEPT ![p] = j] /\ UNCHANGED archives /\ muddled \ muddled' \subseteq {path}
        /\ \A x \in Paths \ {path} : files'[x] = files[x] /\ promise'[x] = promise[x]
    BY <1>1, <2>1 DEF WriteNew, End, Answers
  <2>4. OtherJob(j)
    BY <2>1 DEF OtherJob, Idle
  <2> QED
    BY <2>2, <2>3, <2>4, ApiElsewhere
<1>2. CASE ReadLines(p)
  <2>1. PICK path : path = job[p].path
    OBVIOUS
  <2>2. path \in Plain /\ job[p].op = "flag"
    BY <1>2, <2>1, JobKinds DEF ReadLines, Flags
  <2>3. PICK j : job' = [job EXCEPT ![p] = j] /\ OtherJob(j)
    <3> DEFINE j == [at |-> "open", op |-> "flag", path |-> job[p].path, on |-> job[p].on,
                     flag |-> job[p].flag,
                     text |-> IF files[path] = Absent THEN <<>> ELSE SetFlag(files[path], job[p].flag)]
    <3>1. job' = [job EXCEPT ![p] = j]
      BY <1>2, <2>1 DEF ReadLines
    <3>2. OtherJob(j)
      BY DEF OtherJob
    <3> HIDE DEF j
    <3> QED
      BY <3>1, <3>2
  <2>4. UNCHANGED <<files, archives, promise, muddled>>
    BY <1>2 DEF ReadLines
  <2> QED
    BY <2>2, <2>3, <2>4, ApiElsewhere
<1>3. CASE WriteFlag(p)
  <2>1. PICK path, j : path = job[p].path /\ j = Idle
    OBVIOUS
  <2>2. path \in Plain /\ job[p].op = "flag"
    BY <1>3, <2>1, JobKinds DEF WriteFlag, Flags
  <2>3. /\ job' = [job EXCEPT ![p] = j] /\ UNCHANGED archives /\ muddled \ muddled' \subseteq {path}
        /\ \A x \in Paths \ {path} : files'[x] = files[x] /\ promise'[x] = promise[x]
    BY <1>3, <2>1 DEF WriteFlag, End, Answers
  <2>4. OtherJob(j)
    BY <2>1 DEF OtherJob, Idle
  <2> QED
    BY <2>2, <2>3, <2>4, ApiElsewhere
<1>4. CASE Unlink(p)
  <2>1. PICK path, j : path = job[p].victim /\ j = Idle
    OBVIOUS
  <2>2. path \in Plain /\ job[p].op = "remove"
    BY <1>4, <2>1, JobKinds DEF Unlink, Removes
  <2>3. /\ job' = [job EXCEPT ![p] = j] /\ UNCHANGED archives /\ muddled \ muddled' \subseteq {path}
        /\ \A x \in Paths \ {path} : files'[x] = files[x] /\ promise'[x] = promise[x]
    BY <1>4, <2>1 DEF Unlink, End, Answers
  <2>4. OtherJob(j)
    BY <2>1 DEF OtherJob, Idle
  <2> QED
    BY <2>2, <2>3, <2>4, ApiElsewhere
<1>5. CASE CopyKey(p)
  <2>1. PICK path, j : path = job[p].path /\ j = IF files[path] = Absent
                                                 THEN [job[p] EXCEPT !.at = "write"] ELSE Idle
    OBVIOUS
  <2>2. path \in Plain /\ job[p].op = "account" /\ "at" \in DOMAIN job[p]
    BY <1>5, <2>1, JobKinds, KeyPath DEF CopyKey, Accounts
  <2>3. /\ job' = [job EXCEPT ![p] = j] /\ UNCHANGED <<archives, promise, muddled>>
        /\ \A x \in Paths \ {path} : files'[x] = files[x]
    BY <1>5, <2>1 DEF CopyKey, End, Goto
  <2>4. OtherJob(j)
    BY <2>1, <2>2 DEF OtherJob, Idle
  <2> QED
    BY <2>2, <2>3, <2>4, ApiElsewhere
<1>6. CASE WriteAccount(p)
  <2>1. PICK path : path = job[p].path
    OBVIOUS
  <2>2. path \in Plain /\ job[p].op = "account"
    BY <1>6, <2>1, JobKinds, KeyPath DEF WriteAccount, Accounts
  <2>3. PICK j : job' = [job EXCEPT ![p] = j] /\ OtherJob(j)
    BY <1>6, Proceeding DEF WriteAccount
  <2>4. /\ UNCHANGED archives /\ muddled \ muddled' \subseteq {path}
        /\ \A x \in Paths \ {path} : files'[x] = files[x] /\ promise'[x] = promise[x]
    BY <1>6, <2>1 DEF WriteAccount, Answers
  <2> QED
    BY <2>2, <2>3, <2>4, ApiElsewhere
<1> QED
  BY <1>1, <1>2, <1>3, <1>4, <1>5, <1>6

(***************************************************************************)
(* Archives                                                                *)
(***************************************************************************)
LEMMA ApiTar ==
  ASSUME IInv, ApiInv, NEW p \in Procs, Tar(p)
  PROVE  ApiInv'
<1>1. Backs(job[p]) \/ Restores(job[p])
  BY JobKinds DEF Tar, Idle, Creates, Flags, Removes, Accounts, Apis
<1>2. PICK todo : todo = {x \in InDir(job[p].dir) : files[x] # Absent}
  OBVIOUS
<1>3. PICK j : j = [job[p] EXCEPT !.at = "save", !.todo = todo]
  OBVIOUS
<1>4. /\ job' = [job EXCEPT ![p] = j] /\ UNCHANGED <<files, promise, muddled>>
      /\ archives' = [archives EXCEPT ![job[p].to] = <<>>]
  BY <1>2, <1>3 DEF Tar
<1>5. OtherJob(j)
  BY <1>1, <1>3 DEF OtherJob, Backs, Restores
<1>6. ApiArchiveInv'
  <2>1. DOMAIN <<>> = {}
    OBVIOUS
  <2>2. ApiArchiveOK(<<>>)
    BY <2>1 DEF ApiArchiveOK
  <2>3. \A a \in ArchiveNames : archives'[a] = archives[a] \/ archives'[a] = <<>>
    BY <1>4 DEF IInv, TypeOK
  <2> QED
    BY <2>2, <2>3 DEF ApiInv, ApiArchiveInv
<1>7. \A path \in ApiPaths : ApiSame(p, path)
  BY <1>4 DEF ApiSame, Writing, Tar
<1> QED
  BY <1>4, <1>5, <1>6, <1>7, ApiOther

\* What an archive is given of a file that is not muddled is what was said of it.
LEMMA ApiSave ==
  ASSUME IInv, ApiInv, NEW p \in Procs, Save(p)
  PROVE  ApiInv'
<1>1. Backs(job[p]) \/ Restores(job[p])
  BY JobKinds DEF Save, Idle, Creates, Flags, Removes, Accounts, Apis
<1>2. PICK path \in InDir(job[p].dir) :
        /\ archives' = [archives EXCEPT ![job[p].to] =
                          IF files[path] = Absent \/ @ = NoArchive THEN @
                          ELSE With(@, Relative(path), Saved(p, path))]
        /\ job' = [job EXCEPT ![p].todo = @ \ {path}]
  BY DEF Save
<1>3. PICK j : j = [job[p] EXCEPT !.todo = @ \ {path}]
  OBVIOUS
<1>4. /\ job' = [job EXCEPT ![p] = j] /\ UNCHANGED <<files, promise, muddled>>
      /\ job[p].at = "save"
  BY <1>2, <1>3 DEF Save
<1>5. OtherJob(j)
  BY <1>1, <1>3, <1>4 DEF OtherJob, Backs, Restores
<1>6. PICK n, e, old : n = Relative(path) /\ e = Saved(p, path) /\ old = archives[job[p].to]
  OBVIOUS
<1>7. path \in Paths /\ job[p].to \in ArchiveNames
  BY <1>1, <1>4 DEF Backs, Restores, InDir, ArchiveNames, Backup
<1>8. n \in Names /\ n[1] = Kind(path)
  BY <1>6, <1>7, PathFacts
<1>9. ASSUME files[path] # Absent, n[1] = "api", ~e.muddled PROVE ApiOK(e.text, e.said)
  <2>1. /\ path \in ApiPaths /\ e.text = files[path] /\ e.said = promise[path]
        /\ path \notin muddled /\ path \notin OthersOn(p)
    BY <1>6, <1>7, <1>8, <1>9 DEF Saved, ApiPaths, Plain
  <2>2. ASSUME NEW q \in Procs, Writing(q, path) PROVE FALSE
    <3>1. path \in job[q].on
      BY <2>2, JobFacts DEF Writing, IInv
    <3>2. q # p
      BY <1>4, <2>2 DEF Writing
    <3> QED
      BY <2>1, <3>1, <3>2 DEF OthersOn
  <2>3. ApiOK(TextAt(path), promise[path])
    BY <2>1, <2>2 DEF ApiInv, ApiPathInv, ApiPathOK
  <2> QED
    BY <1>9, <2>1, <2>3 DEF TextAt
<1>10. ApiArchiveOK(old)
  BY <1>6, <1>7 DEF ApiInv, ApiArchiveInv
<1>11. ASSUME files[path] # Absent, old # NoArchive PROVE ApiArchiveOK(With(old, n, e))
  <2>1. PICK new : new = With(old, n, e)
    OBVIOUS
  <2>2. /\ DOMAIN new = DOMAIN old \cup {n} /\ new[n] = e
        /\ \A m \in DOMAIN old \ {n} : new[m] = old[m]
    BY <1>8, <2>1 DEF With
  <2>3. ApiArchiveOK(new)
    BY <1>9, <1>10, <1>11, <2>2 DEF ApiArchiveOK
  <2> QED
    BY <2>1, <2>3
<1>12. ApiArchiveInv'
  <2>1. \A a \in ArchiveNames :
          \/ archives'[a] = archives[a]
          \/ /\ archives'[a] = With(old, n, e)
             /\ files[path] # Absent /\ old # NoArchive
    BY <1>2, <1>6, <1>7 DEF IInv, TypeOK
  <2> QED
    BY <1>11, <2>1 DEF ApiInv, ApiArchiveInv
<1>13. \A x \in ApiPaths : ApiSame(p, x)
  BY <1>4 DEF ApiSame, Writing
<1> QED
  BY <1>4, <1>5, <1>12, <1>13, ApiOther

\* A restore goes on with what an archive holds.
LEMMA ApiSaveEnds ==
  ASSUME IInv, ApiInv, NEW p \in Procs, SaveEnds(p)
  PROVE  ApiInv'
<1>1. Backs(job[p]) \/ Restores(job[p])
  BY JobKinds DEF SaveEnds, Idle, Creates, Flags, Removes, Accounts, Apis
<1>2. UNCHANGED <<files, archives, promise, muddled>> /\ job[p].at = "save"
  BY DEF SaveEnds
<1>3. PICK j : job' = [job EXCEPT ![p] = j] /\ ApiJobOK(j)'
  <2>1. CASE job[p].op = "backup" \/ archives[job[p].from] \in {NoArchive, <<>>}
    <3>1. job' = [job EXCEPT ![p] = Idle]
      BY <2>1 DEF SaveEnds, End
    <3>2. ApiJobOK(Idle)'
      BY DEF ApiJobOK, Idle
    <3> QED
      BY <3>1, <3>2
  <2>2. CASE ~(job[p].op = "backup" \/ archives[job[p].from] \in {NoArchive, <<>>})
    <3>1. PICK of : of = archives[job[p].from]
      OBVIOUS
    <3>2. ApiArchiveOK(of)
      BY <1>1, <1>2, <2>2, <3>1 DEF Backs, Restores, ApiInv, ApiArchiveInv
    <3>3. PICK j : j = [at |-> "extract", op |-> "restore", dir |-> job[p].dir, on |-> job[p].on,
                        to |-> job[p].to, of |-> of, out |-> {}, todo |-> DOMAIN of]
      OBVIOUS
    <3>4. job' = [job EXCEPT ![p] = j]
      BY <2>2, <3>1, <3>3 DEF SaveEnds
    <3>5. j.op = "restore" /\ j.of = of
      BY <3>3
    <3>6. ApiJobOK(j)'
      BY <3>2, <3>5 DEF ApiJobOK
    <3> QED
      BY <3>4, <3>6
  <2> QED
    BY <2>1, <2>2
<1>4. \A path \in ApiPaths : ApiSame(p, path)
  BY <1>2 DEF ApiSame, Writing
<1> QED
  BY <1>2, <1>3, <1>4, ApiKept

\* A restore unlinks a file,
LEMMA ApiExtract ==
  ASSUME IInv, ApiInv, NEW p \in Procs, Extract(p)
  PROVE  ApiInv'
<1>1. Restores(job[p]) /\ job[p].at = "extract" /\ UNCHANGED <<archives, promise>>
  BY Extracting DEF Extract
<1>2. PICK n, path :
        /\ n \in job[p].todo /\ path = PathOf(p, n)
        /\ files' = [files EXCEPT ![path] = Absent] /\ muddled' = muddled \cup {path}
        /\ job' = [job EXCEPT ![p].out = {n}, ![p].todo = @ \ {n}]
  BY DEF Extract
<1>3. path \in Paths /\ path \in job[p].on
  BY <1>1, <1>2, PathOfName
<1>4. path \in ApiPaths => ApiChanged(p, path)
  BY <1>2, <1>3 DEF ApiChanged, ApiPathOK
<1>5. \A x \in ApiPaths \ {path} : ApiSame(p, x)
  BY <1>1, <1>2 DEF ApiSame, Writing, ApiPaths, IInv, TypeOK
<1>6. PICK j : j = [job[p] EXCEPT !.out = {n}, !.todo = @ \ {n}]
  OBVIOUS
<1>7. job' = [job EXCEPT ![p] = j]
  BY <1>2, <1>6 DEF IInv, TypeOK
<1>8. j.op = "restore" /\ j.of = job[p].of
  BY <1>1, <1>6 DEF Restores
<1>9. ApiJobOK(j)'
  BY <1>1, <1>8 DEF ApiInv, ApiJobInv, ApiJobOK, ApiArchiveOK
<1> QED
  BY <1>1, <1>4, <1>5, <1>7, <1>9, ApiKept

\* and has nothing else of it when it goes on.
LEMMA ApiPlaced ==
  ASSUME IInv, ApiInv, NEW p \in Procs, Restores(job[p]), job[p].at = "extract",
         GoesOn(p) \/ End(p)
  PROVE  \E j : job' = [job EXCEPT ![p] = j] /\ ApiJobOK(j)'
<1>1. CASE End(p)
  <2>1. ApiJobOK(Idle)'
    BY DEF ApiJobOK, Idle
  <2> QED
    BY <1>1, <2>1 DEF End
<1>2. CASE ~End(p)
  <2>1. PICK j : j = [job[p] EXCEPT !.out = {}]
    OBVIOUS
  <2>2. job' = [job EXCEPT ![p] = j]
    BY <1>2, <2>1 DEF GoesOn, IInv, TypeOK
  <2>3. j.op = "restore" /\ j.of = job[p].of
    BY <2>1 DEF Restores
  <2>4. ApiJobOK(j)'
    BY <2>3 DEF ApiInv, ApiJobInv, ApiJobOK, ApiArchiveOK
  <2> QED
    BY <2>2, <2>4
<1> QED
  BY <1>1, <1>2

\* It puts in its place what the archive holds,
LEMMA ApiPlace ==
  ASSUME IInv, ApiInv, NEW p \in Procs, Place(p)
  PROVE  ApiInv'
<1>1. Restores(job[p]) /\ job[p].at = "extract" /\ UNCHANGED archives
  BY Extracting DEF Place, Put
<1>2. PICK n, path, e :
        /\ n \in job[p].out /\ path = PathOf(p, n) /\ e = job[p].of[n]
        /\ files' = [files EXCEPT ![path] = e.text] /\ promise' = [promise EXCEPT ![path] = e.said]
        /\ muddled' = IF e.muddled \/ path \in OthersOn(p) THEN muddled ELSE muddled \ {path}
  BY DEF Place, Put
<1>3. path \in Paths /\ path \in job[p].on /\ path \in muddled /\ Kind(path) = n[1]
      /\ n \in DOMAIN job[p].of /\ job[p].of # NoArchive
  BY <1>1, <1>2, PathOfName DEF Restores
<1>4. /\ files'[path] = e.text /\ promise'[path] = e.said
      /\ \A x \in Paths \ {path} : files'[x] = files[x] /\ promise'[x] = promise[x]
  BY <1>2, <1>3 DEF IInv, TypeOK
<1>5. ApiArchiveOK(job[p].of)
  BY <1>1 DEF ApiInv, ApiJobInv, ApiJobOK
<1>6. ASSUME path \in ApiPaths PROVE ApiChanged(p, path)
  <2>1. ASSUME path \notin muddled' PROVE ApiOK(TextAt(path), promise[path])'
    <3>1. ~e.muddled /\ n[1] = "api"
      BY <1>2, <1>3, <1>6, <2>1 DEF ApiPaths, Plain
    <3>2. ApiOK(e.text, e.said)
      BY <1>2, <1>3, <1>5, <3>1 DEF ApiArchiveOK
    <3>3. TextAt(path)' = e.text
      BY <1>4, <3>2, TextThere DEF TextAt
    <3> QED
      BY <1>4, <3>2, <3>3
  <2> QED
    BY <1>2, <1>3, <2>1 DEF ApiChanged, ApiPathOK
<1>7. \A x \in ApiPaths \ {path} : ApiSame(p, x)
  BY <1>1, <1>2, <1>4 DEF ApiSame, Writing, ApiPaths
<1>8. PICK j : job' = [job EXCEPT ![p] = j] /\ ApiJobOK(j)'
  BY <1>1, ApiPlaced DEF Place
<1> QED
  BY <1>1, <1>6, <1>7, <1>8, ApiKept

\* or leaves the file as muddled as it was.
LEMMA ApiPlaceFails ==
  ASSUME IInv, ApiInv, NEW p \in Procs, PlaceFails(p)
  PROVE  ApiInv'
<1>1. Restores(job[p]) /\ job[p].at = "extract"
  BY Extracting
<1>2. PICK n, path, text :
        /\ n \in job[p].out /\ path = PathOf(p, n)
        /\ files' = [files EXCEPT ![path] = text] /\ UNCHANGED <<archives, promise, muddled>>
  BY DEF PlaceFails, Put
<1>3. path \in Paths /\ path \in job[p].on /\ path \in muddled
  BY <1>1, <1>2, PathOfName
<1>4. path \in ApiPaths => ApiChanged(p, path)
  BY <1>2, <1>3 DEF ApiChanged, ApiPathOK
<1>5. \A x \in ApiPaths \ {path} : ApiSame(p, x)
  BY <1>1, <1>2 DEF ApiSame, Writing, ApiPaths, IInv, TypeOK
<1>6. PICK j : job' = [job EXCEPT ![p] = j] /\ ApiJobOK(j)'
  BY <1>1, ApiPlaced DEF PlaceFails
<1> QED
  BY <1>2, <1>4, <1>5, <1>6, ApiKept

\* The wizard.
LEMMA ApiStutters ==
  ASSUME ApiInv, UNCHANGED <<files, archives, job, promise, muddled>>
  PROVE  ApiInv'
<1>1. ApiPathInv'
  BY DEF ApiInv, ApiPathInv, ApiPathOK, TextAt, Writing
<1>2. ApiJobInv'
  BY DEF ApiInv, ApiJobInv, ApiJobOK
<1>3. ApiArchiveInv'
  BY DEF ApiInv, ApiArchiveInv
<1> QED
  BY <1>1, <1>2, <1>3 DEF ApiInv

LEMMA ApiWizard ==
  ASSUME IInv, ApiInv, NEW p \in Procs,
         setupDomains(p) \/ setupUsers(p) \/ setupAuthentication(p) \/ setupEnds(p)
  PROVE  ApiInv'
<1>1. ASSUME NEW path, NEW text, Start(p, Creation(path, text)) PROVE ApiInv'
  <2>1. OtherJob(Creation(path, text))
    BY DEF OtherJob, Creation
  <2> QED
    BY <1>1, <2>1, OtherStarts
<1>2. ASSUME NEW n, NEW given, Start(p, AccountFile(n, given)) PROVE ApiInv'
  <2>1. OtherJob(AccountFile(n, given))
    BY DEF OtherJob, AccountFile
  <2> QED
    BY <1>2, <2>1, OtherStarts
<1>3. ASSUME NEW step, WizardGoes(p, step) PROVE ApiInv'
  BY <1>3, ApiStutters DEF WizardGoes
<1> QED
  BY <1>1, <1>2, <1>3, ApiStutters
  DEF setupDomains, setupUsers, setupAuthentication, setupEnds, DomainFile, UserFile, OAuth2File

(***************************************************************************)
(* Each provider is listed and shown                                       *)
(***************************************************************************)
\* The files that earlier commands may have left.
LEMMA FirstTexts ==
  /\ ApiOK(<<>>, Listed(<<>>))
  /\ \A v \in Providers : ApiOK(Section(v), Listed(Section(v)))
<1>1. <<>> \in Seq(Providers) /\ <<>> \in Seq(Pieces) /\ Len(<<>>) = 0
  OBVIOUS
<1>2. SectionsOf(<<>>, <<>>)
  BY <1>1 DEF SectionsOf
<1>3. Listed(<<>>) = Range(<<>>)
  BY <1>1, <1>2, SectionsListed
<1>4. ApiOK(<<>>, Listed(<<>>))
  <2>1. PICK text, vs : text = <<>> /\ vs = <<>>
    OBVIOUS
  <2>2. Distinct(vs)
    BY <1>1, <2>1 DEF Distinct
  <2>3. vs \in Seq(Providers) /\ SectionsOf(text, vs) /\ Listed(text) = Range(vs)
    BY <1>1, <1>2, <1>3, <2>1
  <2>4. ApiOK(text, Listed(text))
    BY <2>2, <2>3 DEF ApiOK
  <2> QED
    BY <2>1, <2>4
<1>5. ASSUME NEW v \in Providers PROVE ApiOK(Section(v), Listed(Section(v)))
  <2>1. PICK text, vs : text = Section(v) /\ vs = <<v>>
    OBVIOUS
  <2>2. vs \in Seq(Providers) /\ Len(vs) = 1
    BY <2>1
  <2>3. SectionsOf(<<>> \o Section(v), Append(<<>>, v))
    BY <1>1, <1>2, SectionAdded
  <2>4. <<>> \o Section(v) = text /\ Append(<<>>, v) = vs
    BY <2>1 DEF Section
  <2>5. SectionsOf(text, vs)
    BY <2>3, <2>4
  <2>6. Listed(text) = Range(vs)
    BY <2>2, <2>5, SectionsListed
  <2>7. Distinct(vs)
    BY <2>2 DEF Distinct
  <2>8. ApiOK(text, Listed(text))
    BY <2>2, <2>5, <2>6, <2>7 DEF ApiOK
  <2> QED
    BY <2>1, <2>8
<1> QED
  BY <1>4, <1>5

\* It holds first,
LEMMA ApiFirst == Init => ApiInv
<1> SUFFICES ASSUME Init PROVE ApiInv
  OBVIOUS
<1>1. \A p \in Procs : job[p] = Idle
  BY DEF Init
<1>2. ASSUME NEW path \in ApiPaths, NEW v \in Providers, NEW flag, NEW text,
             text = Installed(v, flag)[path] \/ text = Nothing[path]
      PROVE  text = Absent \/ text = Section(v)
  <2>1. path \in Paths /\ path \notin Earlier
    BY ConfigAssumption DEF ConfigAssumption, ApiPaths, Plain, Kind
  <2> QED
    BY <1>2, <2>1 DEF Installed, Nothing
<1>3. ASSUME NEW path \in ApiPaths, NEW v \in Providers, NEW text, text = Absent \/ text = Section(v)
      PROVE  ApiOK(IF text = Absent THEN <<>> ELSE text, Said(path, text))
  <2>1. Said(path, text) = Listed(IF text = Absent THEN <<>> ELSE text)
    BY DEF ApiPaths, Plain, Said
  <2>2. CASE text = Absent
    BY <2>1, <2>2, FirstTexts
  <2>3. CASE text # Absent
    BY <1>3, <2>1, <2>3, FirstTexts
  <2> QED
    BY <2>2, <2>3
<1>4. ASSUME NEW path \in ApiPaths PROVE ApiOK(TextAt(path), promise[path])
  <2>1. path \in Paths /\ promise[path] = Said(path, files[path])
    BY DEF Init, ApiPaths
  <2>2. PICK text : text = files[path]
    OBVIOUS
  <2>3. ApiOK(IF text = Absent THEN <<>> ELSE text, Said(path, text))
    <3>1. CASE files = Nothing
      <4>1. text = Absent /\ Said(path, text) = Listed(<<>>)
        BY <2>1, <2>2, <3>1 DEF Nothing, Said, ApiPaths, Plain
      <4> QED
        BY <4>1, FirstTexts
    <3>2. CASE files # Nothing
      <4>1. PICK v \in Providers, flag \in {On, Off} : files = Installed(v, flag)
        BY <3>2 DEF Init
      <4>2. text = Absent \/ text = Section(v)
        BY <1>2, <2>2, <4>1
      <4> QED
        BY <1>3, <4>2
    <3> QED
      BY <3>1, <3>2
  <2> QED
    BY <2>1, <2>2, <2>3 DEF TextAt
<1>5. ASSUME NEW v \in Providers PROVE ApiArchiveOK(BackupOf(Installed(v, On)))
  <2>1. PICK old, a : old = Installed(v, On) /\ a = BackupOf(old)
    OBVIOUS
  <2>2. ASSUME NEW n \in DOMAIN a, n[1] = "api" PROVE ApiOK(a[n].text, a[n].said)
    <3>1. PICK x \in InDir("etc") : old[x] # Absent /\ n = Relative(x)
      BY <2>1, <2>2 DEF BackupOf
    <3>2. PICK first : first = <<"etc", n[1], n[2]>>
      OBVIOUS
    <3>3. first = x /\ x \in ApiPaths
      <4>1. x \in Paths /\ x[1] = "etc"
        BY <3>1 DEF InDir
      <4> QED
        BY <2>2, <3>1, <3>2, <4>1, PathFacts DEF ApiPaths, Plain
    <3>4. PICK text : text = old[x]
      OBVIOUS
    <3>5. a[n] = [text |-> old[first], said |-> Said(first, old[first]), muddled |-> FALSE]
      BY <2>1, <2>2, <3>2 DEF BackupOf
    <3>6. a[n].text = text /\ a[n].said = Said(x, text)
      BY <3>3, <3>4, <3>5
    <3>7. text # Absent /\ text = Section(v)
      BY <1>2, <2>1, <3>1, <3>3, <3>4
    <3>8. ApiOK(text, Said(x, text))
      BY <1>3, <3>3, <3>7
    <3> QED
      BY <3>6, <3>8
  <2> QED
    BY <2>1, <2>2 DEF ApiArchiveOK
<1>6. ASSUME NEW a \in ArchiveNames PROVE ApiArchiveOK(archives[a])
  <2>1. archives[a] = NoArchive \/ \E v \in Providers : archives[a] = BackupOf(Installed(v, On))
    BY DEF Init
  <2>2. ApiArchiveOK(NoArchive)
    BY DEF ApiArchiveOK
  <2> QED
    BY <1>5, <2>1, <2>2
<1>7. ApiJobInv
  BY <1>1 DEF ApiJobInv, ApiJobOK, Idle
<1> QED
  BY <1>4, <1>6, <1>7 DEF ApiInv, ApiPathInv, ApiPathOK, ApiArchiveInv

\* and every step keeps it.
LEMMA ApiNext == IInv /\ ApiInv /\ [Next]_vars => ApiInv'
<1> SUFFICES ASSUME IInv, ApiInv, [Next]_vars PROVE ApiInv'
  OBVIOUS
<1>1. ASSUME NEW p \in Procs, Starts(p) PROVE ApiInv'
  BY <1>1, ApiStarting
<1>2. ASSUME NEW p \in Procs, Steps(p) PROVE ApiInv'
  <2>1. CASE Open(p) \/ OpenFails(p) \/ WriteFails(p) \/ WriteLost(p)
    BY <2>1, ApiOpens, ApiEnds, ApiWriteFails, ApiLost
  <2>2. CASE \/ WriteNew(p) \/ ReadLines(p) \/ WriteFlag(p) \/ Unlink(p)
             \/ CopyKey(p) \/ WriteAccount(p)
    BY <2>2, ApiPlain
  <2>3. CASE WriteApi(p)
    BY <2>3, ApiWrites
  <2>4. CASE Tar(p) \/ Save(p) \/ SaveFails(p) \/ SaveEnds(p)
    BY <2>4, ApiTar, ApiSave, ApiEnds, ApiSaveEnds
  <2>6. CASE Extract(p) \/ Place(p) \/ PlaceFails(p)
    BY <2>6, ApiExtract, ApiPlace, ApiPlaceFails
  <2>5. CASE setupDomains(p) \/ setupUsers(p) \/ setupAuthentication(p) \/ setupEnds(p)
    BY <2>5, ApiWizard
  <2> QED
    BY <1>2, <2>1, <2>2, <2>3, <2>4, <2>5, <2>6 DEF Steps
<1>3. ASSUME NEW p \in Procs, Crash(p) PROVE ApiInv'
  BY <1>3, ApiEnds
<1>4. CASE UNCHANGED vars
  BY <1>4, ApiStutters DEF vars
<1> QED
  BY <1>1, <1>2, <1>3, <1>4 DEF Next

\* Whatever commands run at once, wherever they are killed and whatever is
\* restored, each provider that was added and not removed since, and no other, is
\* listed, and shown with its own settings, as long as none was added again, no two
\* commands were on the file together and no write of it failed.
THEOREM SectionsHold == Spec => []SectionsTrue
<1>1. IInv /\ ApiInv => SectionsTrue
  <2> SUFFICES ASSUME IInv, ApiInv, NEW d \in {"etc", "home"}, ApiFile(d) \in Settled
               PROVE  /\ Listed(ApiText(d)) = promise[ApiFile(d)]
                      /\ \A v \in Providers : Shown(ApiText(d), v) = {v} \cap promise[ApiFile(d)]
    BY DEF SectionsTrue
  <2>1. PICK path, text : path = ApiFile(d) /\ text = ApiText(d)
    OBVIOUS
  <2>2. path \in ApiPaths /\ TextAt(path) = text /\ path \notin muddled
    BY <2>1, ApiPathsAre DEF Settled
  <2>3. ASSUME NEW q \in Procs, Writing(q, path) PROVE FALSE
    <3>1. path \in job[q].on
      BY <2>3, JobFacts DEF Writing, IInv
    <3> QED
      BY <2>1, <3>1 DEF Settled, InUse
  <2>4. ApiOK(text, promise[path])
    BY <2>2, <2>3 DEF ApiInv, ApiPathInv, ApiPathOK
  <2>5. PICK vs \in Seq(Providers) : Distinct(vs) /\ promise[path] = Range(vs) /\ SectionsOf(text, vs)
    BY <2>4 DEF ApiOK
  <2>6. Listed(text) = Range(vs)
    BY <2>5, SectionsListed
  <2>7. \A v \in Providers : Shown(text, v) = {v} \cap Range(vs)
    BY <2>5, SectionsShown
  <2> QED
    BY <2>1, <2>5, <2>6, <2>7
<1>2. Init => IInv /\ ApiInv
  BY InitOK, ApiFirst
<1>3. IInv /\ ApiInv /\ [Next]_vars => (IInv /\ ApiInv)'
  BY NextKeeps, ApiNext
<1> QED
  BY <1>1, <1>2, <1>3, PTL DEF Spec

=============================================================================
