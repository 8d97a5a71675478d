----------------------------- MODULE MCNetwork -----------------------------
(* netd's parts, each on an instance small enough to be searched through: a   *)
(* served connection (Tcp), the programs' own connections (Dial with loss,    *)
(* Both with writers at both ends), the parked calls (Files, Paths, Runs, and *)
(* Ends for the liveness), the exported sessions (Export), whom they serve    *)
(* (Auth), the held keys (Keys) and the requests served by waiting (Fetch).   *)
(* A behaviour stays with the part it began with: v1 to v10 are that part's   *)
(* variables.                                                                 *)
EXTENDS Integers, Sequences

VARIABLES which, v1, v2, v3, v4, v5, v6, v7, v8, v9, v10

vars == <<which, v1, v2, v3, v4, v5, v6, v7, v8, v9, v10>>

SameUser == [c \in {"a", "b"} |-> 1]
OneWay == [dialler |-> 2, listener |-> 0]
BothWays == [dialler |-> 1, listener |-> 1]

Tcp == INSTANCE TcpServer WITH
    kind <- v1, conn <- v2, peer <- v3, c2s <- v4, s2c <- v5, child <- v6, lost <- v7,
    down <- v8,
    SEQ <- 32, SERVER_ISN <- 29, SERVE_CHUNK <- 1, MAX_CWND <- 6, RTO_MAX_RETRIES <- 1,
    PREFIX_MAX <- 2, Kinds <- {"http", "run", "session"}, PrefixLen <- 1, FileLen <- 2,
    Requests <- 2, Windows <- {4}, MaxPath <- 2, MaxLost <- 1, MaxDown <- 0
Files == INSTANCE RemoteCalls WITH
    remotes <- v1, sessions <- v2, pending <- v3, phase <- v4, calls <- v5, port <- v6,
    down <- v7, peer <- v8, lost <- v9, faults <- v10,
    DIAL_SYN_TRIES <- 1, DIAL_DATA_TRIES <- 1, DIAL_MSS <- 2,
    Callers <- {"a", "b"}, Users <- SameUser, Names <- {1, 2}, Fits <- {TRUE},
    Verbs <- {"open", "clunk"},
    MAX_REMOTE <- 1, MAX_CLIENT_SESSIONS <- 1, REMOTE_RBUF <- 2, RUN_OUT_MAX <- 2,
    REMOTE_DEADLINE <- 2, RUN_DEADLINE <- 2, SESSION_IDLE <- 0, DIAL_IDLE <- 0,
    ReplyLens <- {1}, Keying <- {TRUE}, MaxCalls <- 3, MaxWires <- 1,
    MaxLost <- 0, MaxFaults <- 1, MaxDown <- 1
Paths == INSTANCE RemoteCalls WITH
    remotes <- v1, sessions <- v2, pending <- v3, phase <- v4, calls <- v5, port <- v6,
    down <- v7, peer <- v8, lost <- v9, faults <- v10,
    DIAL_SYN_TRIES <- 1, DIAL_DATA_TRIES <- 1, DIAL_MSS <- 2,
    Callers <- {"a", "b"}, Users <- SameUser, Names <- {1}, Fits <- {TRUE},
    Verbs <- {"path"},
    MAX_REMOTE <- 1, MAX_CLIENT_SESSIONS <- 1, REMOTE_RBUF <- 2, RUN_OUT_MAX <- 2,
    REMOTE_DEADLINE <- 2, RUN_DEADLINE <- 2, SESSION_IDLE <- 0, DIAL_IDLE <- 0,
    ReplyLens <- {2, 3}, Keying <- {FALSE}, MaxCalls <- 2, MaxWires <- 2,
    MaxLost <- 0, MaxFaults <- 0, MaxDown <- 1
Runs == INSTANCE RemoteCalls WITH
    remotes <- v1, sessions <- v2, pending <- v3, phase <- v4, calls <- v5, port <- v6,
    down <- v7, peer <- v8, lost <- v9, faults <- v10,
    DIAL_SYN_TRIES <- 1, DIAL_DATA_TRIES <- 1, DIAL_MSS <- 2,
    Callers <- {"a", "b"}, Users <- SameUser, Names <- {1}, Fits <- {TRUE, FALSE},
    Verbs <- {"run"},
    MAX_REMOTE <- 1, MAX_CLIENT_SESSIONS <- 1, REMOTE_RBUF <- 2, RUN_OUT_MAX <- 2,
    REMOTE_DEADLINE <- 2, RUN_DEADLINE <- 2, SESSION_IDLE <- 0, DIAL_IDLE <- 0,
    ReplyLens <- {2}, Keying <- {FALSE}, MaxCalls <- 2, MaxWires <- 2,
    MaxLost <- 0, MaxFaults <- 1, MaxDown <- 1
Ends == INSTANCE RemoteCalls WITH
    remotes <- v1, sessions <- v2, pending <- v3, phase <- v4, calls <- v5, port <- v6,
    down <- v7, peer <- v8, lost <- v9, faults <- v10,
    DIAL_SYN_TRIES <- 1, DIAL_DATA_TRIES <- 1, DIAL_MSS <- 2,
    Callers <- {"a", "b"}, Users <- SameUser, Names <- {1}, Fits <- {TRUE},
    Verbs <- {"open", "path", "run"},
    MAX_REMOTE <- 1, MAX_CLIENT_SESSIONS <- 1, REMOTE_RBUF <- 2, RUN_OUT_MAX <- 2,
    REMOTE_DEADLINE <- 1, RUN_DEADLINE <- 1, SESSION_IDLE <- 0, DIAL_IDLE <- 0,
    ReplyLens <- {1}, Keying <- {TRUE, FALSE}, MaxCalls <- 1, MaxWires <- 1,
    MaxLost <- 1, MaxFaults <- 1, MaxDown <- 1
Dial == INSTANCE Dials WITH
    dials <- v1, prog <- v2, net <- v3, lost <- v4, port <- v5, wrote <- v6, read <- v7,
    hung <- v8, ended <- v9,
    DIAL_SYN_TRIES <- 1, DIAL_DATA_TRIES <- 1, DIAL_MSS <- 1, MAX_DIAL <- 2,
    DIAL_SBUF <- 2, DIAL_RBUF <- 1, DIAL_READ_MAX <- 1, DIAL_IDLE <- 0, MaxPort <- 2,
    MaxWrite <- OneWay, MaxLost <- 1, MaxNet <- 1
Both == INSTANCE Dials WITH
    dials <- v1, prog <- v2, net <- v3, lost <- v4, port <- v5, wrote <- v6, read <- v7,
    hung <- v8, ended <- v9,
    DIAL_SYN_TRIES <- 1, DIAL_DATA_TRIES <- 0, DIAL_MSS <- 1, MAX_DIAL <- 2,
    DIAL_SBUF <- 2, DIAL_RBUF <- 1, DIAL_READ_MAX <- 1, DIAL_IDLE <- 1, MaxPort <- 2,
    MaxWrite <- BothWays, MaxLost <- 0, MaxNet <- 1
Export == INSTANCE NetExport WITH
    conns <- v1, fsd <- v2, opened <- v3, strayed <- v4, lost <- v5,
    Conns <- {1, 2}, Users <- {"u", "v"}, SESSION_MAX <- 1, SESSION_FIDS <- 2,
    FsdFids <- {1, 2}, MaxOpens <- 3, MaxGen <- 2
Keys == INSTANCE HeldKeys WITH
    slots <- v1, tasks <- v2, told <- v3, robbed <- v4,
    NET_KEY_MAX <- 1, TaskSlots <- {1, 2}, Uids <- {0, 1}, MaxGenerations <- 3
Fetch == INSTANCE NetFetch WITH
    op <- v1, stage <- v2, waited <- v3, tries <- v4, rcv_nxt <- v5, resp <- v6, fin <- v7,
    answer <- v8, made <- v9,
    SYN_TRIES <- 2, SYN_WAIT_TICKS <- 1, Patience <- 2, RespMax <- 3, PageLen <- 4,
    Segs <- {0, 1, 2}, MaxRequests <- 2
Auth == INSTANCE NetAuth WITH
    disk <- v1, step <- v2, budget <- v3, auth <- v4, served <- v5,
    Peers <- {"p", "q"}, Names <- {"root", "ann"}, Budget <- 1

Init ==
    \/ which = "Auth" /\ Auth!Init /\ v6 = 0 /\ v7 = 0 /\ v8 = 0 /\ v9 = 0 /\ v10 = 0
    \/ which = "Tcp" /\ Tcp!Init /\ v9 = 0 /\ v10 = 0
    \/ which = "Files" /\ Files!Init
    \/ which = "Paths" /\ Paths!Init
    \/ which = "Runs" /\ Runs!Init
    \/ which = "Ends" /\ Ends!Init
    \/ which = "Dial" /\ Dial!Init /\ v10 = 0
    \/ which = "Both" /\ Both!Init /\ v10 = 0
    \/ which = "Export" /\ Export!Init /\ v6 = 0 /\ v7 = 0 /\ v8 = 0 /\ v9 = 0 /\ v10 = 0
    \/ which = "Keys" /\ Keys!Init /\ v5 = 0 /\ v6 = 0 /\ v7 = 0 /\ v8 = 0 /\ v9 = 0 /\ v10 = 0
    \/ which = "Fetch" /\ Fetch!Init /\ v10 = 0

Next ==
    /\ which' = which
    /\ \/ which = "Tcp" /\ Tcp!Next /\ UNCHANGED <<v9, v10>>
       \/ which = "Files" /\ Files!Next
       \/ which = "Paths" /\ Paths!Next
       \/ which = "Runs" /\ Runs!Next
       \/ which = "Ends" /\ Ends!Next
       \/ which = "Dial" /\ Dial!Next /\ UNCHANGED <<v10>>
       \/ which = "Both" /\ Both!Next /\ UNCHANGED <<v10>>
       \/ which = "Export" /\ Export!Next /\ UNCHANGED <<v6, v7, v8, v9, v10>>
       \/ which = "Keys" /\ Keys!Next /\ UNCHANGED <<v5, v6, v7, v8, v9, v10>>
       \/ which = "Fetch" /\ Fetch!Next /\ UNCHANGED <<v10>>
       \/ which = "Auth" /\ Auth!Next /\ UNCHANGED <<v6, v7, v8, v9, v10>>

(* netd is a server: its loop comes round (Serve, and the polling of Fetch), *)
(* and time passes.                                                          *)
Serves == which' = which /\ which = "Ends" /\ Ends!Serve
Clock == which' = which /\ which = "Ends" /\ Ends!Clock
Ticks == which' = which /\ which = "Fetch" /\ Fetch!Tick /\ UNCHANGED <<v10>>

Spec == Init /\ [][Next]_vars /\ WF_vars(Serves) /\ WF_vars(Clock) /\ WF_vars(Ticks)

(* What a stream delivers is, at every moment, the beginning of what was     *)
(* sent, in order and once: the replies of a served connection (rewind_to,   *)
(* sack_retransmit), both directions of a program's connection as far as     *)
(* they were written before it closed (pump_dials, dial_on_segment), the     *)
(* page of a fetch (tcp_get).  And it is all of it when the sender's end     *)
(* comes in its turn: at an end of a program's connection that did not close *)
(* first, and, but for the size of the buffer, in a fetch.                   *)
StreamsIntact ==
    /\ which = "Tcp" => Tcp!StreamIntact
    /\ which = "Dial" => Dial!StreamsAgree
    /\ which = "Both" => Both!StreamsAgree
    /\ which = "Fetch" => Fetch!FetchIntact

(* A parked call is answered once, from the peer's reply to that very call;  *)
(* an honest peer is never taken for a forger, and a session is kept only    *)
(* for open remote files (service_remotes, phase_two, park_session).         *)
CallersGetTheirOwn ==
    /\ which = "Files" => Files!CallersGetTheirOwn
    /\ which = "Paths" => Paths!CallersGetTheirOwn
    /\ which = "Runs" => Runs!CallersGetTheirOwn
    /\ which = "Ends" => Ends!CallersGetTheirOwn

(* What netd holds for somebody stays that somebody's: the file server's     *)
(* handles behind a session across restarts of the file server               *)
(* (session_slot, Drop for TcpConn), the users' keys across the ends of the  *)
(* tasks that left them (held.rs); and a user's rights are lent only to a    *)
(* peer that may claim them, whichever file could not be read (load_auth,    *)
(* authenticate_signed, map_user).                                           *)
HoldingsAreTheirs ==
    /\ which = "Auth" => Auth!FailsClosed
    /\ which = "Export" => Export!FidsAreTheirs
    /\ which = "Keys" => Keys!KeysAreTheirs

(* Every request of a program ends: a parked call by its reply, the end of   *)
(* its connection or a deadline that netd is awake to see; a request served  *)
(* by waiting, by the deadlines of its stages.                               *)
EveryRequestEnds ==
    /\ (which = "Ends" /\ Ends!Waiting(1)) ~> (which = "Ends" => ~Ends!Waiting(1))
    /\ (which = "Fetch" /\ v2 # "idle") ~> (which = "Fetch" => v2 = "idle")
=============================================================================
