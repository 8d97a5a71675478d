----------------------------- MODULE MCUserland -----------------------------
(* The servers and programs above the kernel, each on an instance small       *)
(* enough to be searched through.  The parts: fsd's mounts and open files     *)
(* (Server) and access checks (Access); the shell's namespace (Binds),        *)
(* environment (Env), wildcards (Match), pipelines (Pipe) and starting of     *)
(* programs (Starts); the programs on files (Tools, List, Tree, Own), on      *)
(* accounts (Acct) and on text (Re, Text, Sorts, Pages); the C library's files *)
(* (Files) and output (Output).  A behaviour stays with the part it began     *)
(* with: v1 to v12 are that part's variables, and parts that share a module   *)
(* share its instance.                                                        *)
EXTENDS Integers, Sequences, TLC

VARIABLES which, v1, v2, v3, v4, v5, v6, v7, v8, v9, v10, v11, v12

vars == <<which, v1, v2, v3, v4, v5, v6, v7, v8, v9, v10, v11, v12>>

\* A boot disk with a GPT: a firmware partition, two roots whose entries
\* overlap, the second a volume that mounts read-only; and a stick with no table.
FsBoot == [table |-> "Gpt", number |-> 1, start |-> 1, sectors |-> 2, signature |-> [kind |-> "Gpt", id |-> 0]]
FsEntry(type, start, sectors) == [type |-> type, id |-> 0, start |-> start, sectors |-> sectors]
FsCopy(ok, entries) ==
    [headerReads |-> TRUE, headerOk |-> ok, arrayReads |-> TRUE, arrayOk |-> ok, entries |-> entries]
FsDisk(copy, volumes, capacity) ==
    [reads |-> {0, 1}, signed |-> FALSE, id |-> 0, efi |-> copy.headerOk, mbr |-> <<>>, capacity |-> capacity,
     primary |-> copy, backup |-> copy, volumes |-> volumes]
FsOnDisk ==
    ("sd" :> FsDisk(FsCopy(TRUE, <<FsEntry("other", 1, 2), FsEntry("root", 3, 4), FsEntry("root", 4, 3)>>),
                    1 :> "fat32" @@ 3 :> "ext2" @@ 4 :> "exfatRO", 6))
    @@ ("stick" :> FsDisk(FsCopy(FALSE, <<>>), 1 :> "fat32", 3))
FsUids == [netd |-> {1}, prog |-> {0}]
FsOpenFlags == {{"READ", "CREATE"}, {"WRITE", "CREATE", "EXCL"}, {"READ", "WRITE", "TRUNC"}}

\* A directory of user 1 and group 5, open or closed to each class, with a file
\* and a directory below it; on a tree with or without modes.
AcMode(u, g, o) == [u |-> u, g |-> g, o |-> o]
AcNode(dir, uid, gid, mode) == [dir |-> dir, uid |-> uid, gid |-> gid, mode |-> mode]
AcAll == {"r", "w", "x"}
AcTrees ==
    {[modes |-> m, readOnly |-> r,
      nodes |-> (<<>> :> AcNode(TRUE, 0, 0, AcMode(AcAll, {"r", "x"}, {"r", "x"})))
                @@ (<<"d">> :> AcNode(TRUE, 1, 5, AcMode(u, g, o)))
                @@ (<<"d", "f">> :> AcNode(FALSE, 1, 5, AcMode({"r", "w"}, {"r"}, {})))
                @@ (<<"d", "e">> :> AcNode(TRUE, 2, 5, AcMode(AcAll, AcAll, o)))] :
        m, r \in BOOLEAN, u \in {AcAll, {"r", "w"}}, g \in {AcAll, {"r"}}, o \in {{"x"}, {"w", "x"}, {"r"}}}
AcCallers ==
    {[known |-> TRUE, uid |-> u, groups |-> g] : u \in 0..3, g \in {{}, {5}}}
    \cup {[known |-> FALSE, uid |-> 1, groups |-> {5}]}
AcRequests ==
    {[verb |-> v, path |-> p, to |-> <<"d", "n">>, flags |-> {}] :
        v \in {"READDIR", "STAT", "WRITE_AT", "TOUCH", "RM", "MV", "CHMOD", "CHOWN"},
        p \in {<<"d", "f">>, <<"d", "n">>, <<"d", "e", "g">>, <<"d", "..", "f">>}}
    \cup {[verb |-> "OPEN", path |-> p, to |-> <<>>, flags |-> f] :
        p \in {<<"d", "f">>, <<"d", "n">>, <<"d", "e">>, <<"d", "e", "g">>},
        f \in {{"READ"}, {"WRITE", "CREATE", "EXCL"}, {"READ", "TRUNC"}, {"CREATE"}}}

NsTyped == {[abs |-> TRUE, parts |-> <<"a">>], [abs |-> TRUE, parts |-> <<"a", "b">>], [abs |-> FALSE, parts |-> <<"..">>]}

\* Two names of one file, one on another tree, one on another machine, and a directory.
FtPath(n, f, a, t) == [name |-> n, file |-> f, at |-> a, tree |-> t]
FtPaths ==
    {FtPath("/a", "fa", "local", 0), FtPath("/b", "fb", "local", 0), FtPath("/r/a", "ra", "remote", 0),
     FtPath("/m/a", "ma", "local", 1), FtPath("/A", "fa", "local", 0), FtPath("/d", "d", "local", 0)}
FtInside == [p \in {FtPath("/d", "d", "local", 0)} |-> FtPath("/d/a", "fb", "local", 0)]
FtIt(kind, data) == [kind |-> kind, data |-> data]
FtOnDisk ==
    [fa |-> FtIt("file", <<1, 2, 3>>), fb |-> FtIt("absent", <<>>), ra |-> FtIt("file", <<4>>),
     ma |-> FtIt("absent", <<>>), d |-> FtIt("dir", <<>>), st |-> FtIt("absent", <<>>)]

\* Directories of up to four entries, one of them wider than a page.
LsEntry(r, l, d) == [rank |-> r, len |-> l, dot |-> d, sub |-> 0]
LsDirectories ==
    {<<>>, <<LsEntry(3, 1, FALSE)>>, <<LsEntry(5, 3, FALSE)>>, <<LsEntry(2, 2, TRUE)>>,
     <<LsEntry(3, 1, FALSE), LsEntry(1, 1, FALSE)>>,
     <<LsEntry(3, 1, FALSE), LsEntry(4, 2, FALSE), LsEntry(1, 1, FALSE)>>,
     <<LsEntry(3, 1, FALSE), LsEntry(2, 2, TRUE), LsEntry(1, 1, FALSE), LsEntry(4, 2, FALSE)>>,
     <<LsEntry(3, 1, FALSE), LsEntry(4, 2, FALSE), LsEntry(5, 3, FALSE), LsEntry(1, 1, FALSE)>>}
LsOperands == {<<>>, <<"dir", "error">>, <<"file", "dir">>}

TrEntry(r, s) == [rank |-> r, len |-> 1, dot |-> FALSE, sub |-> s]
TrDisks ==
    {<<a, b, c>> : a \in {<<TrEntry(2, 0), TrEntry(1, 2)>>, <<TrEntry(1, 2), TrEntry(3, 0), TrEntry(2, 0), TrEntry(4, 0)>>},
                   b \in {<<>>, <<TrEntry(2, 0), TrEntry(1, 3)>>},
                   c \in {<<>>, <<TrEntry(1, 0)>>}}

\* A system with root alone, and one from before the secrets had a file of
\* their own: bob's is still in passwd, and short.
AcSecret(v, len) == [v |-> v, salt_len |-> len, pw |-> IF v = 0 THEN "" ELSE "x"]
AcUser(n, uid, secret) == [name |-> n, uid |-> uid, gid |-> 0, secret |-> secret]
AcGroup(n, gid, members) == [name |-> n, gid |-> gid, members |-> members]
AcStart ==
    {[passwd |-> <<AcUser("root", 0, AcSecret(0, 0))>>, group |-> <<AcGroup("root", 0, {})>>,
      shadow |-> <<[name |-> "root", secret |-> AcSecret(1, 8)]>>, homes |-> {"root"}],
     [passwd |-> <<AcUser("root", 0, AcSecret(0, 0)), AcUser("bob", 1, AcSecret(1, 4))>>,
      group |-> <<AcGroup("root", 0, {}), AcGroup("dev", 5, {"bob"})>>,
      shadow |-> <<[name |-> "root", secret |-> AcSecret(2, 7)]>>, homes |-> {"root", "bob"}]}

OwField(is, id) == [is |-> is, id |-> id]
OwNo == OwField("absent", 0)
OwOp(op, copy, letters) == [op |-> op, copy |-> copy, letters |-> letters]
OwRequest(kind, octal, ok, clauses, user, group) ==
    [kind |-> kind, octal |-> octal, ok |-> ok, clauses |-> clauses, user |-> user, group |-> group]
OwSymbolic(clauses) == OwRequest("symbolic", {}, TRUE, clauses, OwNo, OwNo)
OwOps ==
    {OwOp(op, "-", l) : op \in {"+", "-", "="}, l \in {{}, {"r", "x"}, {"X"}, {"s", "t"}}}
    \cup {OwOp("=", f, {}) : f \in {"u", "g", "o"}} \cup {OwOp("bad", "-", {})}
OwClauses ==
    {[who |-> w, ops |-> <<o>>] : w \in {{}, {"u"}, {"g", "o"}}, o \in OwOps}
    \cup {[who |-> {"g"}, ops |-> <<>>], [who |-> {"g"}, ops |-> <<OwOp("=", "u", {}), OwOp("-", "-", {"w"})>>]}
OwFields == {OwNo, OwField("number", 3), OwField("number", 5), OwField("name", 2), OwField("name", 4), OwField("name", 1)}
OwRequests ==
    {OwRequest("octal", {<<"u", "r">>}, TRUE, <<>>, OwNo, OwNo), OwRequest("octal", {}, FALSE, <<>>, OwNo, OwNo)}
    \cup {OwSymbolic(<<>>)} \cup {OwSymbolic(<<c>>) : c \in OwClauses}
    \cup {OwSymbolic(<<c, d>>) : c \in {x \in OwClauses : x.who = {"u"}}, d \in {x \in OwClauses : x.who = {"g"}}}
    \cup {OwRequest("owner", {}, TRUE, <<>>, u, g) : u, g \in OwFields}
OwModes == {{}, {<<"u", "r">>, <<"u", "w">>, <<"g", "x">>}, {<<"o", "r">>, <<"s", "u">>, <<"s", "t">>}}

ScSize == [b \in {"image", "argv", "cwd", "env"} |-> IF b = "image" THEN 2 ELSE 1]
EnvSize == [PATH |-> 4, A |-> 1, B |-> 1, LONGNAME |-> 9, bin |-> 3, v |-> 1, wide |-> 8, huge |-> 20]

WcPatterns == UNION {[1..n -> {"a", "b", "*", "?"}] : n \in 1..3}
WcFilenames == UNION {[1..n -> {"a", "B"}] : n \in 1..3}
WcWords == {[before |-> b, prefix |-> p] : b \in {0, 3}, p \in {<<>>, <<"a">>, <<"A", "b">>, <<".">>}}
WcEntries ==
    {[name |-> n, dir |-> FALSE] : n \in {<<"a", "b">>, <<"A", "B", "a">>, <<"b">>, <<".", "a">>, <<"a", "a">>}}
    \cup {[name |-> <<"A", "b", "b">>, dir |-> TRUE]}
WcListings == UNION {[1..n -> WcEntries] : n \in 0..2}

RePatterns ==
    {<<>>, <<"a", "b">>, <<"^", "a", "|", "b", "$">>, <<"(", "a", "|", "b", ")", "*", "A">>,
     <<"(", "a", "*", ")", "*">>, <<"(", "a", "b", ")", "+", "$">>, <<"[", "^", "a", "-", "b", "]">>,
     <<"[", "]", "]">>, <<"[", "a", "-", "]">>, <<"[", "b", "-", "a", "]">>, <<"[", "^", "A", "]", "+">>,
     <<"[", "[", ":", "digit", ":", "]", "]">>, <<"[", "[", ":", "n", ":", "]", "]">>,
     <<"[", "\\", "n", "]">>, <<"\\">>, <<"\\", "*">>, <<"[", "a">>, <<"[", "[", ":">>,
     <<"(", "(", "(", "a", ")", ")", ")">>, <<"(", "a", "|", "a", "a", ")", "+", "b">>,
     <<"a", "?", "a", "?">>, <<"(", "a", "|", ")", "+">>, <<".", "b", "|", "^", "$">>, <<"a", "?", "b", "+">>,
     <<"(", "a">>, <<"a", ")">>, <<"*", "a">>, <<"a", "|", "+">>,
     <<"a", "a", "a", "a", "a", "a", "a", "a", "a">>, <<"a", "?", "a", "?", "b", "?", "b", "?">>, <<"^", "+">>}
ReTexts == UNION {[1..n -> {"a", "b", "A"}] : n \in 0..2} \cup {<<"a", "a", "b">>, <<"a", "b", "a">>, <<"b", "A", "A">>}
ReLimits ==
    {[generous |-> TRUE, pattern |-> 8, nodes |-> 20, classes |-> 3, depth |-> 3, prog |-> 30, stack |-> 10,
      steps |-> 100, total |-> 300, text |-> 5],
     [generous |-> FALSE, pattern |-> 8, nodes |-> 7, classes |-> 3, depth |-> 2, prog |-> 9, stack |-> 2,
      steps |-> 6, total |-> 12, text |-> 2]}

TtCommand(tool, n, needle, fold, invert, numbered) ==
    [tool |-> tool, n |-> n, needle |-> needle, fold |-> fold, invert |-> invert, numbered |-> numbered]
TtPlain(tool, n) == TtCommand(tool, n, <<>>, FALSE, FALSE, FALSE)
TtCommands ==
    {TtPlain("head", n) : n \in 0..2} \cup {TtPlain("tail", n) : n \in {0, 2, 3, 9}}
    \cup {TtPlain(x, 0) : x \in {"nl", "uniq", "rev", "upper", "wc"}}
    \cup {TtCommand("grep", 0, <<"A">>, f, v, TRUE) : f, v \in BOOLEAN}
    \cup {TtCommand("grep", 0, <<"a", "a">>, FALSE, FALSE, FALSE)}
TtInputs ==
    UNION {[1..n -> {"a", "LF"}] : n \in 0..5} \cup UNION {[1..n -> {"a", " ", "LF"}] : n \in 0..3}
    \cup {<<"A", "LF", "b">>, <<"a", "CR", "LF">>}

SoLines == {<<"9">>, <<"1", "0">>, <<"-", "1">>, <<"A">>, <<"a">>, <<>>}
SoInputs ==
    {[lines |-> l, tail |-> t] : l \in UNION {[1..k -> SoLines] : k \in 0..2}, t \in {<<>>, <<"a">>}}
    \cup {[lines |-> <<<<"9">>, <<"1", "0">>, <<"A">>, <<"a">>, <<"-", "1">>>>, tail |-> <<>>],
          [lines |-> <<<<"a">>, <<"9">>, <<"1">>, <<"0">>>>, tail |-> <<"A">>],
          [lines |-> <<<<"a">>, <<"9">>, <<"1">>, <<"0">>, <<"b">>>>, tail |-> <<"A">>],
          [lines |-> <<<<"a">>, <<>>, <<"b">>, <<>>, <<"9">>, <<"1">>>>, tail |-> <<"A">>],
          [lines |-> <<<<"1", "1", "1", "1">>, <<"9", "0">>>>, tail |-> <<"1", "0", "0", "9">>]}
SoFlagSets == {{}, {"r"}, {"n"}, {"u", "f"}, {"r", "n"}}

PgContents == UNION {[1..n -> {0, 3, 8}] : n \in 0..4}
PgScreens == {[cols |-> 3, rows |-> 1], [cols |-> 3, rows |-> 4], [cols |-> 0, rows |-> 3], [cols |-> 80, rows |-> 3]}

\* Two names on the file server, the second a directory's, and one on a peer.
CfPath(s, n) == [server |-> s, name |-> n]
CfPaths == {CfPath("fsd", "a"), CfPath("fsd", "b"), CfPath("peer", "b")}
CfIt(kind, bytes) == [kind |-> kind, bytes |-> bytes]
CfStored ==
    [fsd |-> [a |-> CfIt("file", <<0>>), b |-> CfIt("directory", <<>>)],
     peer |-> [a |-> CfIt("absent", <<>>), b |-> CfIt("absent", <<>>)]]

Server == INSTANCE FileServer WITH
    device <- v1, disks <- v2, changed <- v3, mounts <- v4, fids <- v5, life <- v6,
    known <- v7, serial <- v8,
    Slots <- {"netd", "prog"}, NetTask <- "netd", UidsOf <- FsUids,
    OpenFlags <- FsOpenFlags, Disks <- {"sd", "stick"}, Boot <- FsBoot, OnDisk <- FsOnDisk,
    MAX_MOUNTS <- 3, MAX_FIDS <- 1, Formats <- {"ext2"}, Types <- {"linux"}, Erased <- {2, 6},
    MaxLives <- 1, MaxSerial <- 1
Shell == INSTANCE ShellState WITH
    ns <- v1, cwd <- v2, trees <- v3, mounts <- v4, foreign <- v5,
    Typed <- NsTyped, Partitions <- {1, 2}, PART_TREES <- 1, Endpoints <- {7}, Kinds <- {"con"},
    NS_ENTRIES <- 2, MAX_COMPONENTS <- 2, MaxMounts <- 2,
    env <- v1, warned <- v2, child <- v3, told <- v4, steps <- v5,
    Names <- {"PATH", "A", "B", "LONGNAME"}, Values <- {"v", "wide", "huge"}, Size <- EnvSize,
    MAX_ENV_VARS <- 2, ENV_NAME_SIZE <- 8, ENV_VALUE_SIZE <- 16, ENV_MAX <- 26, MaxSteps <- 5
Tools == INSTANCE FileTools WITH
    files <- v1, tool <- v2, out <- v3, before <- v4, meddled <- v5, faults <- v6,
    others <- v7, runs <- v8,
    Paths <- FtPaths, Inside <- FtInside, OnDisk <- FtOnDisk, Texts <- {<<5, 6>>},
    Commands <- {"cp", "mv", "write", "writeat", "cat", "touch", "rm", "mkdir", "rmdir"},
    Astray <- "st", Offsets <- {1, 4}, LOCAL_CHUNK <- 2, MAX_GAP <- 2,
    MaxFaults <- 1, MaxOthers <- 1, MaxRuns <- 1,
    file <- v1, req <- v2, at <- v3, mode <- v4, seen <- v5, pc <- v6,
    Requests <- OwRequests, Modes <- OwModes, U16_MAX <- 3, Names <- {2, 4},
    dir <- v1, server <- v2, ls <- v3, walk <- v4, shown <- v5, changes <- v7,
    Directories <- LsDirectories, Servers <- {"paging", "old", "broken"}, Operands <- LsOperands,
    PAGE <- 2, LIST_BUF <- 6, MAX_ENTRIES <- 3, Columns <- 2, MaxChanges <- 1
Acct == INSTANCE Accounts WITH
    disk <- v1, tool <- v2, sess <- v3, known <- v4, whole <- v5, cut <- v6, faults <- v7,
    runs <- v8, byGid <- v9,
    Names <- {"bob"}, Groups <- {"dev"}, Passwords <- {"x", "y"}, FIRST_NORMAL_ID <- 1,
    Uids <- {3}, Gids <- {7}, BUF <- 4, Start <- AcStart, MaxFaults <- 2, MaxRuns <- 2
PlLine(h, s, n, len) == [head |-> h, sink |-> s, n |-> n, len |-> len]
PlLines == <<{PlLine("program", ">", 2, 2), PlLine("builtin", ">>", 0, 2)},
             {PlLine("program", ">", 1, 3), PlLine("program", "drain", 2, 2), PlLine("builtin", "console", 1, 3)},
             {PlLine("builtin", ">>", 1, 2), PlLine("builtin", ">", 0, 3)}>>
Pipe == INSTANCE ShellPipeline WITH
    shell <- v1, tasks <- v2, box <- v3, file <- v4, held <- v5, short <- v6, stray <- v7,
    faults <- v8,
    Lines <- PlLines, MaxSlots <- 2, MSG_QUEUE_DEPTH <- 1, Capture <- 2,
    MaxFaults <- 1
Starts == INSTANCE SpawnClient WITH
    state <- v1, gen <- v2, nextGen <- v3, stager <- v4, staged <- v5, buffer <- v6,
    top <- v7, region <- v8, store <- v9, by <- v10, cl <- v11,
    NUM_TASKS <- 3, FIRST_SPAWNABLE <- 2, Failing <- {1}, Blobs <- {"argv", "cwd", "env"},
    Latched <- {"env"}, Size <- ScSize, RamBlocks <- 2, MaxAsked <- 1, MaxGeneration <- 4,
    SHELL <- 0, NET_TASK <- 1, READ <- 2
Match == INSTANCE Matchers WITH
    job <- v1, re <- v2, m <- v3, answer <- v4,
    Patterns <- RePatterns, Texts <- ReTexts, Limits <- ReLimits,
    match <- v2, tab <- v3,
    Wildcards <- WcPatterns, Filenames <- WcFilenames, Words <- WcWords, Listings <- WcListings,
    BUFFER_SIZE <- 6
Text == INSTANCE TextTools WITH
    cmd <- v1, src <- v2, rest <- v3, t <- v4, out <- v5, done <- v6,
    Commands <- TtCommands, Inputs <- TtInputs, MAX_LINE <- 3, MAX_KEEP <- 3,
    input <- v1, flags <- v2, index <- v3, pc <- v4, start <- v6, end <- v7, root <- v8,
    truncated <- v9,
    SortInputs <- SoInputs, FlagSets <- SoFlagSets, data_cap <- 11, max_lines <- 5,
    screen <- v2, content <- v3, pos <- v5, used <- v6, to_show <- v7, fresh <- v8,
    Contents <- PgContents, Screens <- PgScreens, HeapLines <- 3
Libc == INSTANCE CLibrary WITH
    files <- v1, failed <- v2, call <- v3, fs <- v4, fids <- v5, past <- v6, lost <- v7,
    count <- v8,
    MAX_FILES <- 2, FS_DATA_MAX <- 1, LONG_MAX <- 2, Paths <- CfPaths, Stored0 <- {CfStored},
    Fids <- {1, 2}, Offsets <- {-1, 1, 2}, Buffer <- <<1, 0>>, MaxSize <- 2, MaxCalls <- 4,
    MaxFaults <- 1, MaxRestarts <- 1,
    obuf <- v1, out <- v2, todo <- v3, err <- v4, sending <- v5, plan <- v6, ended <- v7,
    mail <- v8, got <- v9, made <- v10, written <- v11, world <- v12,
    OBUF_SIZE <- 2, OUT_BUF_SIZE <- 3, MSG_MAX_LEN <- 2, MAILBOX_DEPTH <- 1, MaxBytes <- 4,
    MaxGiveUps <- 1

Init ==
    \/ which = "Access" /\ v1 \in AcTrees /\ v2 \in AcCallers /\ v3 \in AcRequests
       /\ v4 = 0 /\ v5 = 0 /\ v6 = 0 /\ v7 = 0 /\ v8 = 0 /\ v9 = 0 /\ v10 = 0 /\ v11 = 0 /\ v12 = 0
    \/ which = "Tree" /\ v1 \in TrDisks /\ v2 \in 1..3
       /\ v3 = 0 /\ v4 = 0 /\ v5 = 0 /\ v6 = 0 /\ v7 = 0 /\ v8 = 0 /\ v9 = 0 /\ v10 = 0 /\ v11 = 0 /\ v12 = 0
    \/ which = "Server" /\ Server!Init /\ v9 = 0 /\ v10 = 0 /\ v11 = 0 /\ v12 = 0
    \/ which = "Binds" /\ Shell!Init /\ v6 = 0 /\ v7 = 0 /\ v8 = 0 /\ v9 = 0 /\ v10 = 0 /\ v11 = 0 /\ v12 = 0
    \/ which = "Tools" /\ Tools!Init /\ v9 = 0 /\ v10 = 0 /\ v11 = 0 /\ v12 = 0
    \/ which = "List" /\ Tools!ListInit /\ v8 = 0 /\ v9 = 0 /\ v10 = 0 /\ v11 = 0 /\ v12 = 0
    \/ which = "Acct" /\ Acct!Init /\ v10 = 0 /\ v11 = 0 /\ v12 = 0
    \/ which = "Own" /\ Tools!OwnInit /\ v8 = 0 /\ v9 = 0 /\ v10 = 0 /\ v11 = 0 /\ v12 = 0
    \/ which = "Pipe" /\ Pipe!Init /\ v9 = 0 /\ v10 = 0 /\ v11 = 0 /\ v12 = 0
    \/ which = "Starts" /\ Starts!ClInit /\ v12 = 0
    \/ which = "Env" /\ Shell!EnvInit /\ v6 = 0 /\ v7 = 0 /\ v8 = 0 /\ v9 = 0 /\ v10 = 0 /\ v11 = 0 /\ v12 = 0
    \/ which = "Match" /\ Match!WildInit
       /\ v4 = 0 /\ v5 = 0 /\ v6 = 0 /\ v7 = 0 /\ v8 = 0 /\ v9 = 0 /\ v10 = 0 /\ v11 = 0 /\ v12 = 0
    \/ which = "Re" /\ Match!Init
       /\ v5 = 0 /\ v6 = 0 /\ v7 = 0 /\ v8 = 0 /\ v9 = 0 /\ v10 = 0 /\ v11 = 0 /\ v12 = 0
    \/ which = "Text" /\ Text!Init /\ v7 = 0 /\ v8 = 0 /\ v9 = 0 /\ v10 = 0 /\ v11 = 0 /\ v12 = 0
    \/ which = "Sorts" /\ Text!SortInit /\ v10 = 0 /\ v11 = 0 /\ v12 = 0
    \/ which = "Files" /\ Libc!Init /\ v9 = 0 /\ v10 = 0 /\ v11 = 0 /\ v12 = 0
    \/ which = "Output" /\ Libc!OutInit
    \/ which = "Pages" /\ Text!PageInit /\ v9 = 0 /\ v10 = 0 /\ v11 = 0 /\ v12 = 0

Next ==
    /\ which' = which
    /\ \/ which = "Server" /\ Server!Next /\ UNCHANGED <<v9, v10, v11, v12>>
       \/ which = "Binds" /\ Shell!Next /\ UNCHANGED <<v6, v7, v8, v9, v10, v11, v12>>
       \/ which = "Tools" /\ Tools!Next /\ UNCHANGED <<v9, v10, v11, v12>>
       \/ which = "List" /\ Tools!ListNext /\ UNCHANGED <<v8, v9, v10, v11, v12>>
       \/ which = "Acct" /\ Acct!Next /\ UNCHANGED <<v10, v11, v12>>
       \/ which = "Own" /\ Tools!OwnNext /\ UNCHANGED <<v8, v9, v10, v11, v12>>
       \/ which = "Pipe" /\ Pipe!Next /\ UNCHANGED <<v9, v10, v11, v12>>
       \/ which = "Starts" /\ Starts!ClNext /\ UNCHANGED v12
       \/ which = "Env" /\ Shell!EnvNext /\ UNCHANGED <<v6, v7, v8, v9, v10, v11, v12>>
       \/ which = "Match" /\ Match!WildNext /\ UNCHANGED <<v4, v5, v6, v7, v8, v9, v10, v11, v12>>
       \/ which = "Re" /\ Match!Next /\ UNCHANGED <<v5, v6, v7, v8, v9, v10, v11, v12>>
       \/ which = "Text" /\ Text!Next /\ UNCHANGED <<v7, v8, v9, v10, v11, v12>>
       \/ which = "Sorts" /\ Text!SortNext /\ UNCHANGED <<v10, v11, v12>>
       \/ which = "Files" /\ Libc!Next /\ UNCHANGED <<v9, v10, v11, v12>>
       \/ which = "Output" /\ Libc!OutNext
       \/ which = "Pages" /\ Text!PageNext /\ UNCHANGED <<v9, v10, v11, v12>>

\* ls is a program that runs: its steps, and the answers of the server it asks.
Lists == which' = which /\ which = "List" /\ Tools!Steps /\ UNCHANGED <<v8, v9, v10, v11, v12>>

Spec == Init /\ [][Next]_vars /\ WF_vars(Lists)

\* What a program answers is what its command line asks for, at every size of
\* its buffers: a regular expression matches what it means (regex), a filter
\* writes what it promises (head, tail, nl, uniq, rev, grep, upper, wc), sort
\* sorts and prints every line or says that there was no room, a page fits the
\* screen (more), a wildcard and a completion take every name they should, a
\* child sees the environment that was set, a listing is whole or says that it
\* is not, a tree is drawn as it is, a C program's read or write moves its
\* offset by what it reports and its output comes in order with the
\* end-of-stream marker last, and no verb shows what lies below a directory
\* that is closed (fsd).
AnswersAreRight ==
    /\ which = "Re" => Match!AnswerIsTheMeaning
    /\ which = "Text" => Text!FilterWritesWhatItPromises
    /\ which = "Sorts" => Text!SortedAndWhole
    /\ which = "Pages" => Text!PageFits
    /\ which = "Files" => Libc!IoLinesUp /\ Libc!OffsetInRange
    /\ which = "Output" => Libc!InOrder /\ Libc!PromptIsOut /\ Libc!EosIsLast
    /\ which = "Match" => Match!MatchIsTheMeaning /\ Match!TabKeepsEveryMatch
    /\ which = "Env" => Shell!ChildSeesTheEnvironment
    /\ which = "List" => Tools!ListingIsWholeOrReported
    /\ which = "Tree" => Tools!TreeIsDrawnRight(v1, v2)
    /\ which = "Access" => Server!ClosedDirectoryHides(v1, v2, v3) /\ Server!VerbsAgree(v1, v2, v3)

\* What is held for somebody is kept for them, whatever fails in between: an
\* account that was reported is complete and has the password it was last
\* given (useradd, usermod, passwd, accountd), a copied or moved file is whole
\* and none is lost (cp, mv, write), the shell's slots and staging come back
\* (spawn_path, kill_and_reap), a binding reaches the partition it was made
\* for (ns_drop_partition_trees) and the deepest one decides (resolve_ns), a C
\* program's descriptors reach their files and its exit closes them all and
\* sends all it printed (libc), and the file server's mounts are of the disk
\* that is there and its open files their openers' (reap_dead_fids).
NothingIsLost ==
    /\ which = "Acct" => Acct!AccountsComplete /\ Acct!PasswordIsTheLastSet
    /\ which = "Files" => Libc!FdIsItsFile /\ Libc!NoFidIsLeft
    /\ which = "Output" => Libc!AllIsSent
    /\ which = "Tools" => Tools!SuccessIsWhole /\ Tools!NothingIsLost
    /\ which = "Pipe" => Pipe!NoSlotIsLeaked
    /\ which = "Starts" => Starts!OnlySpawnersHoldStaging /\ Starts!StagedIsKept
    /\ which = "Binds" => Shell!BindingsReachTheirPartition /\ Shell!DeepestBindingDecides
    /\ which = "Server" => Server!MountsAreSound /\ Server!FidsAreTheirOpeners

\* A change touches what was named and nothing else: chmod and chown set what
\* was asked, or say that they failed; a password change in place touches no
\* other account; a redirect leaves the line's own output behind, all of it
\* unless a stage failed or the failure is told; a request changes only a
\* volume that may be changed.
OnlyTheNamedChanges ==
    [][/\ which = "Own" => Tools!OnlyTheNamedChanges
       /\ which = "Acct" => Acct!SameWidthTouchesNobodyElse
       /\ which = "Pipe" => Pipe!RedirectIsWhole
       /\ which = "Server" => Server!OnlyWritableVolumesChange']_vars

\* ls comes to its end, whatever the server answers and however the directory
\* changes meanwhile (readdir_pages takes a page only if it advances).
ListingEnds == which = "List" ~> (which = "List" => Tools!Exited)
=============================================================================
