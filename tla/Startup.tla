------------------------------ MODULE Startup ------------------------------
(***************************************************************************)
(* main of src/src/wdserver.c up to ws_start: the defaults, the options    *)
(* of the command line, the daemon, and ws_init of src/src/websocket.c,    *)
(* which comes after the options.  Built without SSL.                      *)
(***************************************************************************)
EXTENDS Naturals, FiniteSets

CONSTANT MaxOptions  \* bound: options on the command line

ASSUME OptionsAssumption == MaxOptions \in Nat

VARIABLES
    pc,      \* where main is
    args,    \* the options getopt_long has still to return
    daemon,  \* read_option_args' result
    config,  \* wsconfig
    given    \* history: the options that have been read

startup == <<pc, args, daemon, config, given>>

Fields == {"host", "port", "unixsocket", "prefix_path", "prefix_url",
           "echomode", "max_frm_size", "origin", "accesslog"}

\* long_opts and short_options; "other" is one getopt_long does not know.
Options == {"d", "port", "addr", "echo-mode", "max-frame-size", "origin", "prefix-path",
            "prefix-url", "access-log", "version", "help", "other"}

\* What parse_long_opt and read_option_args set; they have nothing for "addr".
Setting == [o \in {"port", "echo-mode", "max-frame-size", "origin", "prefix-path", "prefix-url",
                   "access-log"} |->
               CASE o = "port" -> "port"
                 [] o = "echo-mode" -> "echomode"
                 [] o = "max-frame-size" -> "max_frm_size"
                 [] o = "origin" -> "origin"
                 [] o = "prefix-path" -> "prefix_path"
                 [] o = "prefix-url" -> "prefix_url"
                 [] o = "access-log" -> "accesslog"]

StartupTypeOK ==
    /\ pc \in {"main", "options", "daemon", "signals", "ws_init", "ws_start", "serving", "exited"}
    /\ args \in SUBSET Options /\ given \in SUBSET Options
    /\ daemon \in BOOLEAN
    /\ config \in [Fields -> {"NULL", "default", "given"}]

StartupInit ==
    /\ pc = "main"
    /\ args \in {S \in SUBSET Options : Cardinality(S) <= MaxOptions}
    /\ daemon = FALSE
    /\ config = [f \in Fields |-> "NULL"]
    /\ given = {}

Goto(label) == pc' = label

-----------------------------------------------------------------------------
Defaults ==
    /\ pc = "main"
    /\ config' = [f \in Fields |->
                     IF f \in {"host", "port", "unixsocket", "prefix_path", "prefix_url"}
                     THEN "default" ELSE config[f]]
    /\ Goto("options")
    /\ UNCHANGED <<args, daemon, given>>

Read(o) == /\ pc = "options" /\ o \in args
           /\ args' = args \ {o}
           /\ given' = given \cup {o}

\* An option that is read: what it sets, if anything.
parse_long_opt(o) ==
    /\ Read(o)
    /\ config' = IF o \in DOMAIN Setting THEN [config EXCEPT ![Setting[o]] = "given"] ELSE config
    /\ daemon' = (daemon \/ o = "d")
    /\ UNCHANGED pc

\* The log cannot be opened: FATAL.
LogFails == /\ Read("access-log")
            /\ Goto("exited")
            /\ UNCHANGED <<daemon, config>>

Help(o) == /\ Read(o)
           /\ Goto("exited")
           /\ UNCHANGED <<daemon, config>>

read_option_args ==
    \/ \E o \in Options \ {"version", "help", "other"} : parse_long_opt(o)
    \/ LogFails
    \/ \E o \in {"version", "help", "other"} : Help(o)
    \/ /\ pc = "options" /\ args = {}
       /\ Goto(IF daemon THEN "daemon" ELSE "signals")
       /\ UNCHANGED <<args, daemon, config, given>>

\* The child goes on, or a call fails.
wd_daemon == /\ pc = "daemon"
             /\ pc' \in {"signals", "exited"}
             /\ UNCHANGED <<args, daemon, config, given>>

setup_signals == /\ pc = "signals"
                 /\ Goto("ws_init")
                 /\ UNCHANGED <<args, daemon, config, given>>

\* Mutant: ws_init sets its own default for the port.
ws_init_Port == /\ pc = "ws_init"
                /\ config' = [config EXCEPT !["accesslog"] = "NULL", !["max_frm_size"] = "default",
                                            !["origin"] = "NULL", !["port"] = "default"]
                /\ Goto("ws_start")
                /\ UNCHANGED <<args, daemon, given>>

\* What ws_init assigns to itself stays.
ws_init == /\ pc = "ws_init"
           /\ config' = [config EXCEPT !["accesslog"] = "NULL", !["max_frm_size"] = "default",
                                       !["origin"] = "NULL"]
           /\ Goto("ws_start")
           /\ UNCHANGED <<args, daemon, given>>

\* us_listen, ws_socket, and the loop; or one of them is FATAL.
ws_start == /\ pc = "ws_start"
            /\ pc' \in {"serving", "exited"}
            /\ UNCHANGED <<args, daemon, config, given>>

Start == \/ Defaults \/ read_option_args \/ wd_daemon \/ setup_signals \/ ws_init \/ ws_start

-----------------------------------------------------------------------------
\* The server runs with the options of its command line, but for the three that ws_init,
\* run after them, puts back, and addr, which nothing reads; and with the defaults for the
\* others.
OptionsInForce ==
    pc = "serving" =>
        \A o \in DOMAIN Setting \ {"access-log", "max-frame-size", "origin"} :
            o \in given <=> config[Setting[o]] = "given"
=============================================================================
