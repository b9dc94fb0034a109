------------------------- MODULE NetworkConnection -------------------------
(***************************************************************************)
(* How the task of the update server joins the Wi-Fi network               *)
(* (network_connection.c, the beginning of TCP_OTA_Server).  No            *)
(* application sets a link handler in this repository, so wifi_join never  *)
(* registers for link events: the connected state, once true, stays true.  *)
(* The asserts are those of the Debug build that the repository holds; a   *)
(* failing one stops the processor.                                        *)
(***************************************************************************)
EXTENDS ShellTask

CONSTANT Network   \* the credentials of the access point

ASSUME NetworkAssumption ==
  Network \in Credentials /\ Network.ssid # ""

VARIABLES
  tcp,           \* where the task is
  credentials,   \* s_wifi_cred of network_connection.c
  attempts,      \* attempts to join, counted up to 3
  authAttempts,  \* those refused for want of authentication
  connected,     \* s_connectState
  interfaces,    \* netif_add less netif_remove
  accessPoint,   \* external: the access point is in reach
  linked         \* external: the station is associated with it

netVars == <<credentials, attempts, authAttempts, connected, interfaces, linked>>

NetLabels ==
  {"boot", "get", "join", "reread", "ifadd", "dhcp", "deleted", "assert"}

NetTypeOK ==
  /\ credentials \in Credentials
  /\ attempts \in 0..3
  /\ authAttempts \in 0..4
  /\ connected \in BOOLEAN
  /\ interfaces \in Nat
  /\ accessPoint \in BOOLEAN
  /\ linked \in BOOLEAN

NetInit ==
  /\ credentials = ZeroCredentials
  /\ attempts = 0
  /\ authAttempts = 0
  /\ connected = FALSE
  /\ interfaces = 0
  /\ linked = FALSE

NetRestart ==
  /\ credentials' = ZeroCredentials
  /\ attempts' = 0
  /\ authAttempts' = 0
  /\ connected' = FALSE
  /\ interfaces' = 0
  /\ linked' = FALSE

Continue(label) == tcp' = label

-----------------------------------------------------------------------------
\* Read takes s_fileLock and waits for a Save of the shell task to end.
FileReadable == shell \notin InSave

\* wifi_credentials_flash_get into a buffer it has cleared.
FlashGet ==
  credentials' = IF wifiFile \in Credentials THEN wifiFile ELSE ZeroCredentials

\* check_valid_credentials
Valid(c) == c.ssid # ""

APP_NETWORK_Init ==
  /\ tcp = "boot"
  /\ Continue("get")
  /\ UNCHANGED <<netVars, accessPoint>>

WifiConnectAssert ==
  /\ tcp \in {"get", "reread"}
  /\ FileReadable
  /\ wifiFile = Broken
  /\ Continue("assert")
  /\ UNCHANGED <<netVars, accessPoint>>

\* Without credentials the driver is left and the task deleted.
WifiNoCred ==
  /\ tcp = "get"
  /\ FileReadable
  /\ wifiFile # Broken
  /\ FlashGet
  /\ ~Valid(credentials')
  /\ linked' = FALSE
  /\ interfaces' = 0
  /\ connected' = FALSE
  /\ Continue("deleted")
  /\ UNCHANGED <<attempts, authAttempts, accessPoint>>

\* Mutant: the refusals of the last call are still counted.
WifiConnectKeepsCount ==
  /\ tcp = "get"
  /\ FileReadable
  /\ wifiFile # Broken
  /\ FlashGet
  /\ Valid(credentials')
  /\ attempts' = 0
  /\ Continue("join")
  /\ UNCHANGED <<authAttempts, connected, interfaces, linked, accessPoint>>

WifiConnect ==
  /\ tcp = "get"
  /\ FileReadable
  /\ wifiFile # Broken
  /\ FlashGet
  /\ Valid(credentials')
  /\ attempts' = 0
  /\ authAttempts' = 0
  /\ Continue("join")
  /\ UNCHANGED <<connected, interfaces, linked, accessPoint>>

\* attempts is only compared with 1 and 2.
CountAttempt == attempts' = IF attempts < 3 THEN attempts + 1 ELSE 3

JoinSucceeds ==
  /\ tcp = "join"
  /\ accessPoint
  /\ credentials = Network
  /\ linked' = TRUE
  /\ connected' = TRUE
  /\ Continue("ifadd")
  /\ UNCHANGED <<credentials, attempts, authAttempts, interfaces, accessPoint>>

\* Mutant: the fourth attempt is the last.
JoinNotFoundGivesUp ==
  /\ tcp = "join"
  /\ CountAttempt
  /\ Continue(IF attempts > 2 THEN "deleted" ELSE "join")
  /\ UNCHANGED <<credentials, authAttempts, connected, interfaces, linked,
                 accessPoint>>

\* WWD_NETWORK_NOT_FOUND, WWD_INVALID_JOIN_STATUS: for ever, with the
\* credentials read again from the fourth attempt on.
JoinNotFound ==
  /\ tcp = "join"
  /\ CountAttempt
  /\ Continue(IF attempts > 2 THEN "reread" ELSE "join")
  /\ UNCHANGED <<credentials, authAttempts, connected, interfaces, linked,
                 accessPoint>>

\* After fifteen seconds; what is read is not validated.
RereadCredentials ==
  /\ tcp = "reread"
  /\ FileReadable
  /\ wifiFile # Broken
  /\ FlashGet
  /\ Continue("join")
  /\ UNCHANGED <<attempts, authAttempts, connected, interfaces, linked,
                 accessPoint>>

\* Mutant: the fourth refusal deletes the task.
JoinNotAuthenticatedGivesUp ==
  /\ tcp = "join"
  /\ authAttempts' = authAttempts + 1
  /\ IF authAttempts' > 3
       THEN Continue("deleted") /\ UNCHANGED attempts
       ELSE Continue("join") /\ CountAttempt
  /\ UNCHANGED <<credentials, connected, interfaces, linked, accessPoint>>

\* The driver says so of a join that nothing answered in time, whatever the
\* credentials.  Four of them end Wifi_Connect; the server starts it again.
JoinNotAuthenticated ==
  /\ tcp = "join"
  /\ authAttempts' = authAttempts + 1
  /\ IF authAttempts' > 3
       THEN Continue("get") /\ UNCHANGED attempts
       ELSE Continue("join") /\ CountAttempt
  /\ UNCHANGED <<credentials, connected, interfaces, linked, accessPoint>>

\* Any other failure, at any time: three in all end Wifi_Connect.
JoinFails ==
  /\ tcp = "join"
  /\ IF attempts > 1
       THEN Continue("get") /\ UNCHANGED attempts
       ELSE Continue("join") /\ CountAttempt
  /\ UNCHANGED <<credentials, authAttempts, connected, interfaces, linked,
                 accessPoint>>

\* netif_add, netif_set_up, dhcp_start
WifiIfAdd ==
  /\ tcp = "ifadd"
  /\ interfaces' = interfaces + 1
  /\ Continue("dhcp")
  /\ UNCHANGED <<credentials, attempts, authAttempts, connected, linked,
                 accessPoint>>

\* Mutant: after a second without an address the caller tries again.
DhcpTimeout ==
  /\ tcp = "dhcp"
  /\ IF linked THEN Continue("listen") ELSE Continue("get")
  /\ UNCHANGED <<netVars, accessPoint>>

\* External: the DHCP server answers.  The wait has no timeout; the loop
\* would also end with s_connectState cleared, which nothing does.
DhcpBound ==
  /\ tcp = "dhcp"
  /\ linked
  /\ Continue("listen")
  /\ UNCHANGED <<netVars, accessPoint>>

NetStep ==
  \/ APP_NETWORK_Init \/ WifiConnectAssert \/ WifiNoCred \/ WifiConnect
  \/ JoinSucceeds \/ JoinNotFound \/ RereadCredentials
  \/ JoinNotAuthenticated \/ JoinFails
  \/ WifiIfAdd

\* External: the access point goes and comes back; no step of the program
\* notices (the only handler would be wifi_connect_update_handler).
AccessPointGoes ==
  /\ accessPoint
  /\ accessPoint' = FALSE
  /\ linked' = FALSE
  /\ UNCHANGED <<tcp, credentials, attempts, authAttempts, connected, interfaces>>

AccessPointComes ==
  /\ ~accessPoint
  /\ accessPoint' = TRUE
  /\ UNCHANGED <<tcp, netVars>>

=============================================================================
