------------------------------ MODULE Accounts ------------------------------
(***************************************************************************)
(* The account database: /etc/passwd, /etc/group and /etc/shadow as files  *)
(* of lines, the `accounts` library that edits them, the root tools        *)
(* (useradd, usermod, groupadd), passwd with the account server, and the   *)
(* login that reads them.                                                  *)
(*                                                                         *)
(* A line is a record of its fields; a password's hash is the pair of its  *)
(* version and the password.  A read can fail, and so can a write: refused *)
(* before anything changed, cut between the truncation and the new bytes   *)
(* (a whole-file write) or within the secret it overwrites (a write in     *)
(* place), or done with its answer lost.  A tool can also be killed        *)
(* between any two of its calls.  One tool runs at a time: the shell waits *)
(* for the program that has the keyboard.                                  *)
(***************************************************************************)
EXTENDS Integers, Sequences, FiniteSets, SequencesExt

CONSTANTS
    Names,            \* user names beside root
    Groups,           \* group names a caller can give beside the users' own
    Passwords,
    Uids,             \* the uids given with -u
    Gids,             \* the numbers given with -g
    FIRST_NORMAL_ID,
    BUF,              \* SAFECOPY_MAX, in lines
    Start,            \* the databases a behaviour starts from
    MaxFaults,        \* calls to the file server that fail
    MaxRuns           \* tools that are started

VARIABLES
    disk,    \* passwd, group, shadow: sequences of lines; homes: directories
    tool,    \* the running tool: its step and what it has read and made
    sess,    \* the shell: its identity, and whether somebody is logged in
    known,   \* for each name, the passwords that may now be its own
    whole,   \* the accounts reported as created (or there at the start)
    cut,     \* the files a cut rewrite has emptied
    byGid,   \* the names whose primary group was last given as a number
    faults, runs

vars == <<disk, tool, sess, known, whole, cut, byGid, faults, runs>>

NoSecret == [v |-> 0, salt_len |-> 0, pw |-> ""]
secret_v2(p) == [v |-> 2, salt_len |-> 7, pw |-> p]
verify(s, p) == s.v # 0 /\ s.pw = p
Damaged == "damaged"   \* what no password hashes to: a secret half overwritten

(* The width of a secret's two fields: "2$" and 7 bytes of salt take the    *)
(* room of the 8 bytes of a version-1 salt.                                *)
Width(s) == IF s.v = 2 THEN 8 ELSE s.salt_len

AccountLine(n, uid, gid) == [name |-> n, uid |-> uid, gid |-> gid, secret |-> NoSecret]
SecretLine(n, s) == [name |-> n, secret |-> s]
GroupLine(n, gid, members) == [name |-> n, gid |-> gid, members |-> members]

(***************************************************************************)
(* The library: searching and editing files of lines.                      *)
(***************************************************************************)
First(places) == CHOOSE i \in places : \A j \in places : i <= j
At(f, n) == First({i \in DOMAIN f : f[i].name = n})
Named(f, n) == \E i \in DOMAIN f : f[i].name = n
ByName(f, n) == f[At(f, n)]
find_secret_by_name(f, n) == IF Named(f, n) THEN ByName(f, n).secret ELSE NoSecret

NextFree(ids) ==
    LET max == CHOOSE m \in ids \cup {FIRST_NORMAL_ID - 1} :
                  /\ m >= FIRST_NORMAL_ID - 1
                  /\ \A i \in ids : i <= m
    IN  max + 1
next_free_uid(f) == NextFree({f[i].uid : i \in DOMAIN f})
next_free_gid(f) == NextFree({f[i].gid : i \in DOMAIN f})

replace_line(f, n, l) == [f EXCEPT ![At(f, n)] = l]
remove_line(f, n) == IF Named(f, n) THEN RemoveAt(f, At(f, n)) ELSE f
Put(f, n, l) == IF Named(f, n) THEN replace_line(f, n, l) ELSE Append(f, l)

add_group_member(f, g, n) ==
    IF ~Named(f, g) THEN f
    ELSE replace_line(f, g, [ByName(f, g) EXCEPT !.members = @ \cup {n}])
remove_group_member_everywhere(f, n) ==
    [i \in DOMAIN f |-> [f[i] EXCEPT !.members = @ \ {n}]]
supplementary_gids(f, n, primary) ==
    {f[i].gid : i \in {j \in DOMAIN f : n \in f[j].members}} \ {primary}

(***************************************************************************)
(* Calls to the file server.  read_file_checked refuses a file that fills  *)
(* its buffer; read_file_all takes a failed read for an empty file.        *)
(***************************************************************************)
ReadOutcomes == {"ok", "io"}
PutOutcomes == {"ok", "refused", "late"}
WriteOutcomes == PutOutcomes \cup {"cut"}
Failures(os) == Cardinality({i \in DOMAIN os : os[i] # "ok"})
Spend(os) == Failures(os) <= faults /\ faults' = faults - Failures(os)

read_file_checked(f, o) == o = "ok" /\ Len(f) < BUF
read_file_all(f, o) == IF o = "ok" /\ Len(f) < BUF THEN f ELSE <<>>

Written(old, new, o) ==
    CASE o \in {"ok", "late"} -> new [] o = "refused" -> old [] o = "cut" -> <<>>
Fits(f) == Len(f) <= BUF
CutBy(file, o) == IF o = "cut" THEN {file} ELSE {}

Idle == [op |-> "none"]
Starts(r) == tool = Idle /\ runs < MaxRuns /\ sess.in /\ tool' = r /\ runs' = runs + 1
Ends == tool' = Idle
IsRoot == sess.uid = 0

(***************************************************************************)
(* useradd.  Everything that can fail comes before the passwd line: the    *)
(* group, the home, the secret; what was made is unmade when a later step  *)
(* fails.                                                                  *)
(***************************************************************************)
\* What -g is given: a number, taken as it is, or the name of a group.
Number(gid) == [is |-> "number", gid |-> gid, name |-> ""]
Group(name) == [is |-> "name", gid |-> 0, name |-> name]
resolve_gid(groups, spec) == IF spec.is = "number" THEN spec.gid ELSE ByName(groups, spec.name).gid
Resolves(groups, spec) == spec.is = "number" \/ Named(groups, spec.name)

\* With no -g (spec is the user's own name) a group of that name is adopted or
\* made.
resolve_group(n, uid, spec, o) ==
    LET groups == read_file_all(disk.group, o)
    IN  IF spec # Group(n) THEN [gid |-> resolve_gid(groups, spec), create |-> FALSE]
        ELSE IF Named(groups, n) THEN [gid |-> ByName(groups, n).gid, create |-> FALSE]
        ELSE [gid |-> uid, create |-> TRUE]

(* u is the uid given with -u, 0 for none (-u 0 is refused), spec the group *)
(* given with -g or that of the user's own name.  The passwd file is read,  *)
(* and the whole of it written back by UseraddCommit with the new line.    *)
Useradd(n, u, spec, p) ==
    \E o \in ReadOutcomes :
        LET uid == IF u = 0 THEN next_free_uid(disk.passwd) ELSE u
            primary == resolve_group(n, uid, spec, o)
            out == Append(disk.passwd, AccountLine(n, uid, primary.gid))
        IN  /\ IsRoot
            /\ read_file_checked(disk.passwd, "ok") /\ ~Named(disk.passwd, n)
            /\ u # 0 => \A i \in DOMAIN disk.passwd : disk.passwd[i].uid # u
            /\ spec = Group(n) \/ Resolves(read_file_all(disk.group, o), spec)
            /\ Fits(out)
            /\ Starts([op |-> "useradd", step |-> IF primary.create THEN "group" ELSE "home",
                       name |-> n, gid |-> primary.gid, number |-> spec.is = "number", out |-> out, secret |-> secret_v2(p),
                       made_group |-> primary.create, made_home |-> FALSE])
            /\ Spend(<<o>>)
            /\ whole' = whole \ {n}
            /\ UNCHANGED <<disk, sess, known, cut, byGid>>

Undone(f, n, made, o) == IF made THEN Written(f, remove_line(f, n), o) ELSE f

(* remove_secret, rmdir and remove_group, each best effort: s and g are     *)
(* what becomes of the two rewrites, h of the rmdir.                       *)
RollBack(d, t, secretToo, s, h, g) ==
    [d EXCEPT !.shadow = Undone(d.shadow, t.name, secretToo, s),
              !.homes = IF t.made_home /\ h = "ok" THEN @ \ {t.name} ELSE @,
              !.group = Undone(d.group, t.name, t.made_group, g)]
CutByRollBack(t, secretToo, s, g) ==
    (IF secretToo THEN CutBy("shadow", s) ELSE {}) \cup (IF t.made_group THEN CutBy("group", g) ELSE {})

UseraddGroup ==
    /\ tool.op = "useradd" /\ tool.step = "group"
    /\ \E r \in ReadOutcomes, o \in WriteOutcomes :
        LET new == Append(disk.group, GroupLine(tool.name, tool.gid, {}))
            can == read_file_checked(disk.group, r) /\ Fits(new)
        IN  /\ Spend(<<r, o>>) /\ (~can => o = "ok")
            /\ disk' = IF can THEN [disk EXCEPT !.group = Written(@, new, o)] ELSE disk
            /\ cut' = cut \cup CutBy("group", o)
            /\ IF can /\ o = "ok" THEN tool' = [tool EXCEPT !.step = "home"] ELSE Ends
    /\ UNCHANGED <<sess, known, whole, byGid, runs>>

(* A home that exists is adopted, its owner and mode left alone.            *)
UseraddHome ==
    /\ tool.op = "useradd" /\ tool.step = "home"
    /\ \E o \in PutOutcomes, g \in WriteOutcomes :
        /\ Spend(<<o, g>>) /\ (o = "ok" \/ ~tool.made_group => g = "ok")
        /\ IF o = "ok"
           THEN /\ disk' = [disk EXCEPT !.homes = @ \cup {tool.name}]
                /\ tool' = [tool EXCEPT !.step = "secret",
                                        !.made_home = tool.name \notin disk.homes]
           ELSE /\ disk' = RollBack([disk EXCEPT !.homes = IF o = "late" THEN @ \cup {tool.name} ELSE @],
                                    tool, FALSE, "ok", "ok", g)
                /\ Ends
        /\ cut' = cut \cup CutByRollBack(tool, FALSE, "ok", g)
    /\ UNCHANGED <<sess, known, whole, byGid, runs>>

\* A mutant: the new secret goes behind one the name already has.
add_secret_appends(f, n, s) == Append(f, SecretLine(n, s))

(* The secret a line of this name already holds is replaced: one left by   *)
(* a useradd that was killed must not outlive it.                          *)
add_secret(f, n, s) == Put(f, n, SecretLine(n, s))

UseraddSecret ==
    /\ tool.op = "useradd" /\ tool.step = "secret"
    /\ \E r \in ReadOutcomes, o \in WriteOutcomes, h \in PutOutcomes, g \in WriteOutcomes :
        LET new == add_secret(disk.shadow, tool.name, tool.secret)
            can == read_file_checked(disk.shadow, r) /\ Fits(new)
            there == [disk EXCEPT !.shadow = IF can THEN Written(@, new, o) ELSE @]
            done == can /\ o = "ok"
        IN  /\ Spend(<<r, o, h, g>>)
            /\ (~can => o = "ok") /\ (done \/ ~tool.made_home => h = "ok") /\ (done \/ ~tool.made_group => g = "ok")
            /\ disk' = IF done THEN there ELSE RollBack(there, tool, FALSE, "ok", h, g)
            /\ cut' = cut \cup CutBy("shadow", o) \cup CutByRollBack(tool, FALSE, "ok", g)
            /\ IF done THEN tool' = [tool EXCEPT !.step = "commit"] ELSE Ends
    /\ UNCHANGED <<sess, known, whole, byGid, runs>>

Numbered(o) ==
    IF o \notin {"ok", "late"} THEN byGid
    ELSE IF tool.number THEN byGid \cup {tool.name} ELSE byGid \ {tool.name}

(* The commit point.                                                        *)
UseraddCommit ==
    /\ tool.op = "useradd" /\ tool.step = "commit"
    /\ \E o \in WriteOutcomes, s \in WriteOutcomes, h \in PutOutcomes, g \in WriteOutcomes :
        LET there == [disk EXCEPT !.passwd = Written(@, tool.out, o)]
        IN  /\ Spend(<<o, s, h, g>>)
            /\ (o = "ok" => s = "ok" /\ h = "ok" /\ g = "ok")
            /\ (~tool.made_home => h = "ok") /\ (~tool.made_group => g = "ok")
            /\ disk' = IF o = "ok" THEN there ELSE RollBack(there, tool, TRUE, s, h, g)
            /\ cut' = cut \cup CutBy("passwd", o) \cup CutByRollBack(tool, TRUE, s, g)
            /\ whole' = IF o = "ok" THEN whole \cup {tool.name} ELSE whole
            /\ known' = IF o = "ok" THEN [known EXCEPT ![tool.name] = {tool.secret.pw}] ELSE known
            /\ byGid' = Numbered(o)
    /\ Ends
    /\ UNCHANGED <<sess, runs>>

(***************************************************************************)
(* usermod: -G rewrites the memberships one file write at a time, -g       *)
(* rewrites the account's line, which has no room for an inline secret.    *)
(***************************************************************************)
UsermodGroups(n, list) ==
    /\ IsRoot
    /\ read_file_checked(disk.passwd, "ok") /\ Named(disk.passwd, n)
    /\ read_file_checked(disk.group, "ok")
    /\ \E o \in WriteOutcomes :
        LET new == remove_group_member_everywhere(disk.group, n)
            changed == new # disk.group
        IN  /\ Spend(<<o>>) /\ (~changed => o = "ok")
            /\ disk' = [disk EXCEPT !.group = Written(@, new, o)]
            /\ cut' = cut \cup CutBy("group", o)
            /\ Starts(IF o = "ok" THEN [op |-> "usermod", name |-> n, list |-> list, cur |-> new]
                      ELSE [op |-> "exits"])
    /\ UNCHANGED <<sess, known, whole, byGid>>

(* Each group of the list in turn, from the copy that was last written.    *)
UsermodAdds ==
    /\ tool.op = "usermod" /\ tool.list # <<>>
    /\ \E o \in WriteOutcomes :
        LET new == add_group_member(tool.cur, Head(tool.list), tool.name)
            changed == new # tool.cur
        IN  /\ Spend(<<o>>) /\ (~changed => o = "ok")
            /\ disk' = IF changed THEN [disk EXCEPT !.group = Written(@, new, o)] ELSE disk
            /\ cut' = cut \cup CutBy("group", o)
            /\ IF o = "ok" THEN tool' = [tool EXCEPT !.cur = new, !.list = Tail(@)] ELSE Ends
    /\ UNCHANGED <<sess, known, whole, byGid, runs>>

(* An inline secret goes to /etc/shadow first, unless an entry is there.    *)
migrate_secret(f, a) == IF Named(f, a.name) THEN f ELSE Append(f, SecretLine(a.name, a.secret))

UsermodPrimary(n, spec) ==
    /\ IsRoot
    /\ read_file_checked(disk.passwd, "ok") /\ Named(disk.passwd, n)
    /\ \E r \in ReadOutcomes, o \in WriteOutcomes :
        LET a == ByName(disk.passwd, n)
            migrates == a.secret # NoSecret
            new == migrate_secret(disk.shadow, a)
            can == ~migrates \/ (read_file_checked(disk.shadow, r) /\ Fits(new))
            safe == can /\ o = "ok"
        IN  /\ Spend(<<r, o>>) /\ (~migrates => r = "ok") /\ (new = disk.shadow \/ ~can => o = "ok")
            /\ disk' = IF migrates /\ can THEN [disk EXCEPT !.shadow = Written(@, new, o)] ELSE disk
            /\ cut' = cut \cup CutBy("shadow", o)
            /\ Starts(IF safe /\ Resolves(read_file_all(disk.group, "ok"), spec)
                      THEN [op |-> "regroup", name |-> n, number |-> spec.is = "number",
                            out |-> replace_line(disk.passwd, n,
                                        AccountLine(n, a.uid, resolve_gid(disk.group, spec)))]
                      ELSE [op |-> "exits"])
    /\ UNCHANGED <<sess, known, whole, byGid>>

UsermodRewrites ==
    /\ tool.op = "regroup"
    /\ \E o \in WriteOutcomes :
        /\ Spend(<<o>>)
        /\ disk' = [disk EXCEPT !.passwd = Written(@, tool.out, o)]
        /\ cut' = cut \cup CutBy("passwd", o)
        /\ byGid' = Numbered(o)
    /\ Ends
    /\ UNCHANGED <<sess, known, whole, runs>>

(* A gid given with -g is taken as it is, another group's included.        *)
Groupadd(n, spec) ==
    /\ IsRoot
    /\ read_file_checked(disk.group, "ok") /\ ~Named(disk.group, n)
    /\ \E o \in WriteOutcomes :
        LET gid == IF spec.is = "number" THEN spec.gid ELSE next_free_gid(disk.group)
            new == Append(disk.group, GroupLine(n, gid, {}))
        IN  /\ Spend(<<o>>) /\ Fits(new)
            /\ disk' = [disk EXCEPT !.group = Written(@, new, o)]
            /\ cut' = cut \cup CutBy("group", o)
    /\ Starts([op |-> "exits"])
    /\ UNCHANGED <<sess, known, whole, byGid>>

(***************************************************************************)
(* The account server.  A secret of the width it replaces is written over  *)
(* it in place, and cut short leaves that one entry damaged; any other     *)
(* change of /etc/shadow is a rewrite of the file.                         *)
(***************************************************************************)
CallerMay(uid, a) == uid = 0 \/ a.uid = uid
current_secret(f, a) == IF Named(f, a.name) THEN find_secret_by_name(f, a.name) ELSE a.secret

InPlace(f, n, s) == Named(f, n) /\ Width(ByName(f, n).secret) = Width(s)
write_secret(f, n, s, length_may_change, o) ==
    IF InPlace(f, n, s)
    THEN IF o = "cut" THEN Put(f, n, SecretLine(n, [s EXCEPT !.pw = Damaged]))
         ELSE Written(f, Put(f, n, SecretLine(n, s)), o)
    ELSE IF length_may_change /\ Fits(Put(f, n, SecretLine(n, s)))
    THEN Written(f, Put(f, n, SecretLine(n, s)), o)
    ELSE f

SetSecret(n, s, length_may_change, o) ==
    LET f == write_secret(disk.shadow, n, s, length_may_change, o)
    IN  /\ disk' = [disk EXCEPT !.shadow = f]
        /\ cut' = cut \cup IF f = <<>> /\ o = "cut" THEN {"shadow"} ELSE {}

(* passwd: a caller other than root first asks for the salt and version    *)
(* their current secret has, to derive the hash that proves they know it.  *)
Passwd(n, old, new) ==
    /\ read_file_checked(disk.passwd, "ok") /\ Named(disk.passwd, n)
    /\ CallerMay(sess.uid, ByName(disk.passwd, n))
    /\ ~IsRoot => /\ read_file_checked(disk.shadow, "ok")
                  /\ current_secret(disk.shadow, ByName(disk.passwd, n)) # NoSecret
    /\ Starts([op |-> "passwd", name |-> n, uid |-> sess.uid, new |-> new,
               old |-> IF IsRoot THEN NoSecret
                       ELSE [current_secret(disk.shadow, ByName(disk.passwd, n)) EXCEPT !.pw = old]])
    /\ UNCHANGED <<disk, sess, known, whole, cut, byGid, faults>>

\* What an account's secret may be after a change that was not reported done.
Unsure(n, p, o) ==
    [known EXCEPT ![n] = @ \cup {p} \cup (IF o = "cut" /\ InPlace(disk.shadow, n, secret_v2(p)) THEN {Damaged} ELSE {})]

change_password ==
    /\ tool.op = "passwd"
    /\ \E r \in ReadOutcomes, o \in WriteOutcomes :
        LET n == tool.name
            a == ByName(disk.passwd, n)
            ok == /\ Named(disk.passwd, n) /\ CallerMay(tool.uid, a)
                  /\ read_file_checked(disk.shadow, r)
                  /\ tool.uid = 0 \/ tool.old = current_secret(disk.shadow, a)
        IN  /\ Spend(<<r, o>>) /\ (~ok => o = "ok")
            /\ IF ok
               THEN /\ SetSecret(n, secret_v2(tool.new), TRUE, o)
                    /\ known' = IF o = "ok" /\ disk'.shadow # disk.shadow
                                THEN [known EXCEPT ![n] = {tool.new}] ELSE Unsure(n, tool.new, o)
               ELSE UNCHANGED <<disk, known, cut>>
    /\ Ends
    /\ UNCHANGED <<sess, whole, byGid, runs>>

Exits == (tool.op = "exits" \/ (tool.op = "usermod" /\ tool.list = <<>>)) /\ Ends
         /\ UNCHANGED <<disk, sess, known, whole, cut, byGid, faults, runs>>

(* Ctrl-C, or the kill command from another session.                        *)
Killed == tool # Idle /\ Ends /\ UNCHANGED <<disk, sess, known, whole, cut, byGid, faults, runs>>

(***************************************************************************)
(* login and logout: the boot shell checks the password itself, upgrades a *)
(* version-1 secret through the account server, then takes the identity.   *)
(***************************************************************************)
verify_password(a, p, o) ==
    LET s == find_secret_by_name(disk.shadow, a.name)
    IN  IF o = "ok" /\ s # NoSecret THEN verify(s, p) ELSE verify(a.secret, p)
Upgradable(n, o) ==
    LET s == find_secret_by_name(disk.shadow, n)
    IN  o = "ok" /\ s.v = 1 /\ s.salt_len = 8

Login(n, p) ==
    /\ ~sess.in /\ Named(disk.passwd, n) /\ Len(disk.passwd) < BUF
    /\ \E r \in ReadOutcomes, u \in WriteOutcomes, g \in ReadOutcomes :
        LET a == ByName(disk.passwd, n)
        IN  /\ Spend(<<r, u, g>>) /\ (~Upgradable(n, r) => u = "ok")
            /\ verify_password(a, p, r)
            /\ IF Upgradable(n, r) /\ read_file_checked(disk.shadow, "ok")
               THEN SetSecret(n, secret_v2(p), FALSE, u) /\ known' = Unsure(n, p, u)
               ELSE UNCHANGED <<disk, cut, known>>
            /\ sess' = [in |-> TRUE, uid |-> a.uid, gid |-> a.gid,
                        groups |-> supplementary_gids(read_file_all(disk.group, g), n, a.gid)]
    /\ UNCHANGED <<tool, whole, byGid, runs>>

(* su, which only root may use, takes an account's identity without asking. *)
su_by_name(n) ==
    /\ sess.in /\ IsRoot /\ tool = Idle /\ Named(disk.passwd, n) /\ Len(disk.passwd) < BUF
    /\ LET a == ByName(disk.passwd, n)
       IN  sess' = [in |-> TRUE, uid |-> a.uid, gid |-> a.gid,
                    groups |-> supplementary_gids(read_file_all(disk.group, "ok"), n, a.gid)]
    /\ UNCHANGED <<disk, tool, known, whole, cut, byGid, faults, runs>>

(* SET_ID back to the saved identity, with no groups.                       *)
LoggedOut == [in |-> FALSE, uid |-> 0, gid |-> 0, groups |-> {}]
Logout ==
    /\ sess.in /\ tool = Idle /\ sess' = LoggedOut
    /\ UNCHANGED <<disk, tool, known, whole, cut, byGid, faults, runs>>

Everybody == Names \cup {"root"}
Specs == {Group(g) : g \in Groups} \cup {Number(gid) : gid \in Gids}

Init ==
    /\ disk \in Start
    /\ tool = Idle
    /\ sess = LoggedOut
    /\ known = [n \in Everybody |->
                   IF Named(disk.passwd, n) THEN {current_secret(disk.shadow, ByName(disk.passwd, n)).pw}
                   ELSE {}]
    /\ whole = {disk.passwd[i].name : i \in DOMAIN disk.passwd}
    /\ cut = {} /\ byGid = {} /\ faults = MaxFaults /\ runs = 0

Next ==
    \/ \E n \in Names, u \in Uids \cup {0}, p \in Passwords : \E g \in Specs \cup {Group(n)} : Useradd(n, u, g, p)
    \/ UseraddGroup \/ UseraddHome \/ UseraddSecret \/ UseraddCommit
    \/ \E n \in Everybody : \/ \E g \in Groups : UsermodGroups(n, <<g>>)
                           \/ \E spec \in Specs : UsermodPrimary(n, spec)
    \/ UsermodAdds \/ UsermodRewrites
    \/ \E g \in Groups : \E spec \in {Number(gid) : gid \in Gids} \cup {Group(g)} : Groupadd(g, spec)
    \/ \E n \in Everybody, old, new \in Passwords : Passwd(n, old, new)
    \/ change_password \/ Exits \/ Killed
    \/ \E n \in Everybody, p \in Passwords : Login(n, p)
    \/ \E n \in Everybody : su_by_name(n)
    \/ Logout

Spec == Init /\ [][Next]_vars

(* An account that useradd reported as created is complete: it has a home, *)
(* a secret and, unless its group was given as a number, which nobody      *)
(* checks, a primary group; and no other account has its uid.  Only a      *)
(* rewrite of one of those files that was cut takes that from it (the      *)
(* order of useradd's steps, its roll-back, usermod's migration of an      *)
(* inline secret).                                                         *)
AccountsComplete ==
    \A i \in DOMAIN disk.passwd :
        LET a == disk.passwd[i]
        IN  a.name \in whole =>
            /\ a.name \in disk.homes
            /\ "shadow" \notin cut => current_secret(disk.shadow, a) # NoSecret
            /\ "group" \notin cut /\ a.name \notin byGid => \E g \in DOMAIN disk.group : disk.group[g].gid = a.gid
            /\ \A j \in DOMAIN disk.passwd : disk.passwd[j].uid = a.uid => i = j

(* The password an account has is the one last set for it, or one whose    *)
(* setting was not reported as done: never one left by an account of the   *)
(* same name that was never created, nor a stale inline copy (add_secret,  *)
(* migrate_secret, the upgrade at login); and none at all opens it only    *)
(* after a write in place of its own secret was cut.                       *)
PasswordIsTheLastSet ==
    \A n \in whole :
        Named(disk.passwd, n) /\ "shadow" \notin cut
        => current_secret(disk.shadow, ByName(disk.passwd, n)).pw \in known[n]

(* A password change of the same width touches no other account's secret,  *)
(* whatever becomes of the write (write_secret, changed_span); nor does    *)
(* the upgrade at a login, cut short or not.                               *)
SameWidthTouchesNobodyElse ==
    (tool.op = "passwd" /\ InPlace(disk.shadow, tool.name, secret_v2(tool.new))) \/ ~sess.in
    => \A n \in Everybody :
           \/ find_secret_by_name(disk'.shadow, n).pw = find_secret_by_name(disk.shadow, n).pw
           \/ IF tool.op = "passwd" THEN n = tool.name
              ELSE Named(disk.passwd, n) /\ ByName(disk.passwd, n).uid = sess'.uid
=============================================================================
