------------------------------- MODULE PspNet -------------------------------
(***************************************************************************)
(* The start-up of networking in the PSP port, src/PSP/main_psp.cpp        *)
(* 217-348: psp_net_connect on the main thread and net_thread, which runs  *)
(* connect_to_apctl.                                                       *)
(*                                                                         *)
(* main (priority 0x20) creates net_thread (0x18) and polls                *)
(* psp_net_available once a second until it is non-zero.  net_thread       *)
(* retries connect_to_apctl until it succeeds, setting psp_net_available   *)
(* to 1, or until the user lets a 10-second "try again" countdown run out, *)
(* setting it to -1.  connect_to_apctl waits up to 10 seconds for the WLAN *)
(* switch, giving up at once on a button press, then connects and polls    *)
(* the connection state every 50 ms up to 900 times.                       *)
(*                                                                         *)
(* The user is the environment: the WLAN switch and the pad's buttons      *)
(* change at any time and are read when the code reads them.  The results  *)
(* of sceNetApctlConnect and sceNetApctlGetState are free choices.  The    *)
(* waits are states a timer ends; net_thread outranks main, so main runs   *)
(* only while net_thread sleeps or has not started or has ended.           *)
(*                                                                         *)
(* WaitLimit is the 10 of the two one-second loops, PollLimit the 900 of   *)
(* the state poll.                                                         *)
(***************************************************************************)
EXTENDS Integers

CONSTANTS WaitLimit, PollLimit

ASSUME WaitLimit \in Nat \ {0} /\ PollLimit \in Nat \ {0}

VARIABLES
    net,           \* net_thread: its pc and the loop counter i of its frame
    main,          \* the main thread's pc in psp_net_connect
    available,     \* psp_net_available
    udptunnel,     \* the "udptunnel" preference
    wlan,          \* sceWlanGetSwitchState() = 1
    button,        \* pad.Buttons # 0
    skipped        \* history: a button press ended a WLAN wait

netVars == <<net, main, available, udptunnel>>
envVars == <<wlan, button>>
vars == <<netVars, envVars, skipped>>

NetPcs == {"none", "loop", "wlan", "wlan_sleep", "connect", "poll",
           "poll_sleep", "connected_sleep", "retry", "retry_sleep", "done"}
MainPcs == {"create", "poll", "poll_sleep", "done"}

NetTypeOK ==
    /\ net \in [pc : NetPcs, i : 0..(IF WaitLimit > PollLimit THEN WaitLimit
                                                              ELSE PollLimit)]
    /\ main \in MainPcs
    /\ available \in {-1, 0, 1}
    /\ udptunnel \in BOOLEAN
    /\ wlan \in BOOLEAN /\ button \in BOOLEAN /\ skipped \in BOOLEAN

(* psp_net_connect is called because "udptunnel" is set; the user may     *)
(* hold a button or have the switch either way from the start.             *)
NetInit ==
    /\ net = [pc |-> "none", i |-> 0]
    /\ main = "create"
    /\ available = 0
    /\ udptunnel = TRUE
    /\ wlan \in BOOLEAN /\ button \in BOOLEAN
    /\ skipped = FALSE

NetGoto(pc, i) == net' = [pc |-> pc, i |-> i]

(* connect_to_apctl returns 0: net_thread prints "Couldn't connect" and    *)
(* starts its countdown.                                                   *)
ConnectFails == NetGoto("retry", 0)

-----------------------------------------------------------------------------
(* net_thread                                                              *)

NetReady == net.pc \in {"loop", "wlan", "connect", "poll", "retry"}

(* while (psp_net_available != 1): a new connect_to_apctl, or return.      *)
NetLoop ==
    /\ net.pc = "loop"
    /\ IF available = 1 THEN NetGoto("done", 0) ELSE NetGoto("wlan", 0)
    /\ UNCHANGED <<main, available, udptunnel, skipped>>

(* One round of connect_to_apctl's WLAN wait: the switch is on, or a       *)
(* button gives up, or the thread sleeps a second; after 10 rounds it      *)
(* gives up.                                                               *)
NetWlan ==
    /\ net.pc = "wlan"
    /\ \/ net.i < WaitLimit /\ wlan /\ NetGoto("connect", 0)
          /\ UNCHANGED skipped
       \/ net.i < WaitLimit /\ ~wlan /\ button /\ ConnectFails
          /\ skipped' = TRUE
       \/ net.i < WaitLimit /\ ~wlan /\ ~button /\ NetGoto("wlan_sleep", net.i)
          /\ UNCHANGED skipped
       \/ net.i = WaitLimit /\ ConnectFails /\ UNCHANGED skipped
    /\ UNCHANGED <<main, available, udptunnel>>

(* sceNetApctlDisconnect, then sceNetApctlConnect(config): an error ends   *)
(* connect_to_apctl with 0.                                                *)
NetConnect ==
    /\ net.pc = "connect"
    /\ \/ NetGoto("poll", 0)
       \/ ConnectFails
    /\ UNCHANGED <<main, available, udptunnel, skipped>>

(* One round of the state poll: sceNetApctlGetState fails (break, return   *)
(* 0), reports state 4 ("Connected!", a 3-second sleep, return 1), or      *)
(* another state (a 50 ms sleep); after PollLimit rounds, return 0.        *)
NetPoll ==
    /\ net.pc = "poll"
    /\ \/ net.i < PollLimit /\ ConnectFails
       \/ net.i < PollLimit /\ NetGoto("connected_sleep", 0)
       \/ net.i < PollLimit /\ NetGoto("poll_sleep", net.i)
       \/ net.i = PollLimit /\ ConnectFails
    /\ UNCHANGED <<main, available, udptunnel, skipped>>

(* A mutant: the countdown ends without psp_net_available = -1.           *)
NetRetryNoGiveUp ==
    /\ net.pc = "retry"
    /\ \/ net.i < WaitLimit /\ button /\ NetGoto("loop", 0)
       \/ net.i < WaitLimit /\ ~button /\ NetGoto("retry_sleep", net.i)
       \/ net.i = WaitLimit /\ NetGoto("done", 0)
    /\ UNCHANGED <<main, available, udptunnel, skipped>>

(* A mutant: the countdown's test "i < 10" written "i <= 10".              *)
NetRetryOffByOne ==
    /\ net.pc = "retry"
    /\ \/ net.i <= WaitLimit /\ button /\ NetGoto("loop", 0)
          /\ UNCHANGED available
       \/ net.i <= WaitLimit /\ ~button /\ NetGoto("retry_sleep", net.i)
          /\ UNCHANGED available
       \/ net.i = WaitLimit + 1 /\ available' = -1 /\ NetGoto("done", 0)
    /\ UNCHANGED <<main, udptunnel, skipped>>

(* One round of the "Press any key to try again" countdown: a button       *)
(* breaks out to retry, else the thread sleeps a second; after 10 rounds   *)
(* psp_net_available = -1 and the thread returns.                          *)
NetRetry ==
    /\ net.pc = "retry"
    /\ \/ net.i < WaitLimit /\ button /\ NetGoto("loop", 0)
          /\ UNCHANGED available
       \/ net.i < WaitLimit /\ ~button /\ NetGoto("retry_sleep", net.i)
          /\ UNCHANGED available
       \/ net.i = WaitLimit /\ available' = -1 /\ NetGoto("done", 0)
    /\ UNCHANGED <<main, udptunnel, skipped>>

NetStep == NetLoop \/ NetWlan \/ NetConnect \/ NetPoll \/ NetRetry

(* A sleep of net_thread ends.  After "Connected!" connect_to_apctl        *)
(* returns 1: sceNetApctlGetInfo fills szMyIPAddr and psp_net_available =  *)
(* 1.                                                                      *)
NetWake ==
    /\ \/ net.pc = "wlan_sleep" /\ NetGoto("wlan", net.i + 1)
          /\ UNCHANGED available
       \/ net.pc = "poll_sleep" /\ NetGoto("poll", net.i + 1)
          /\ UNCHANGED available
       \/ net.pc = "retry_sleep" /\ NetGoto("retry", net.i + 1)
          /\ UNCHANGED available
       \/ net.pc = "connected_sleep" /\ available' = 1 /\ NetGoto("loop", 0)
    /\ UNCHANGED <<main, udptunnel, skipped>>

-----------------------------------------------------------------------------
(* psp_net_connect on the main thread                                      *)

(* sceKernelCreateThread("net_thread", ..., 0x18, ...): on failure the     *)
(* error is shown, "udptunnel" cleared and psp_net_connect returns; else   *)
(* the thread is started.                                                  *)
MainCreate ==
    /\ main = "create"
    /\ \/ NetGoto("loop", 0) /\ main' = "poll" /\ UNCHANGED udptunnel
       \/ UNCHANGED net /\ main' = "done" /\ udptunnel' = FALSE
    /\ UNCHANGED <<available, skipped>>

(* if (psp_net_available) break; sceKernelDelayThread(1000*1000); and      *)
(* after the loop, anything but 1 clears "udptunnel", 1 keeps it (and      *)
(* psp_local_ip_addr = strdup(szMyIPAddr)).                                *)
MainPoll ==
    /\ main = "poll"
    /\ \/ available = 0 /\ main' = "poll_sleep" /\ UNCHANGED udptunnel
       \/ available = 1 /\ main' = "done" /\ UNCHANGED udptunnel
       \/ available = -1 /\ main' = "done" /\ udptunnel' = FALSE
    /\ UNCHANGED <<net, available, skipped>>

MainWake ==
    /\ main = "poll_sleep"
    /\ main' = "poll"
    /\ UNCHANGED <<net, available, udptunnel, skipped>>

MainStep == MainCreate \/ MainPoll

-----------------------------------------------------------------------------
(* The user                                                                *)

UserButton == button' = ~button /\ UNCHANGED <<netVars, wlan, skipped>>
UserSwitch == wlan' = ~wlan /\ UNCHANGED <<netVars, button, skipped>>

NetRuns  == NetStep /\ UNCHANGED envVars
MainRuns == ~NetReady /\ MainStep /\ UNCHANGED envVars
NetTimer  == NetWake /\ UNCHANGED envVars
MainTimer == MainWake /\ UNCHANGED envVars

NetNext ==
    \/ NetRuns \/ MainRuns \/ NetTimer \/ MainTimer
    \/ UserButton \/ UserSwitch

(* net_thread outranks main and runs whenever it is ready, and each sleep *)
(* of either thread ends (weak fairness).  main runs whenever net_thread   *)
(* sleeps, which it does again and again while it has not ended (strong   *)
(* fairness).  Nothing forces the user to act.                             *)
NetSpec ==
    /\ NetInit
    /\ [][NetNext]_vars
    /\ WF_vars(NetRuns)
    /\ SF_vars(MainRuns)
    /\ WF_vars(NetTimer)
    /\ WF_vars(MainTimer)

-----------------------------------------------------------------------------
(* Properties                                                              *)

(* psp_net_connect returns once the user stops pressing buttons: net_thread *)
(* gets through its bounded waits and polls and ends its retries with      *)
(* psp_net_available = 1 or -1, and the main thread's poll sees it.        *)
NetConnectReturns == (<>[]~button) => <>(main = "done")

(* The prompt "Please enable WLAN or press a button to procede without     *)
(* networking": once a button press has ended the WLAN wait, net_thread    *)
(* makes no further connection attempt.                                    *)
ButtonSkipsNetworking ==
    [][skipped /\ net.pc = "loop" => net'.pc # "wlan"]_vars

=============================================================================
