---------------------------- MODULE WifiSettings ----------------------------
(***************************************************************************)
(* The settings of the Wi-Fi board: wifisettings.c over nvs.c over the     *)
(* nvs_flash library of ESP-IDF.  Every call of the library is a step of   *)
(* its own, and the board may lose power before any of them.  Values are   *)
(* abstract; the library's results are what nvs.c and wifisettings.c test: *)
(* 0, the negative ESP_FAIL, and the positive ESP_ERR_NVS_* codes.         *)
(***************************************************************************)
EXTENDS Integers

CONSTANTS Value,      \* names, passwords and addresses
          Nothing,    \* a key that was never set; not a Value
          MaxCalls    \* bound: calls of the settings' interface

VARIABLES isOpen,    \* is_open
          handle,    \* whether _handle came out of a successful nvs_open
          store,     \* what the storage namespace holds, by key
          durable,   \* what it held at the last commit
          call,      \* the call in progress
          result,    \* the call that returned last, and what it returned
          calls

vars == <<isOpen, handle, store, durable, call, result, calls>>

Key == {"ap_ssid", "ap_password", "global_ipv6"}
Empty == [k \in Key |-> Nothing]

EspOk == 0
EspFail == -1
EspErrNvs == 4352      \* ESP_ERR_NVS_BASE and the codes above it
EspErr == {EspOk, EspFail, EspErrNvs}

Idle == [op |-> "idle"]

Init ==
    /\ isOpen = FALSE /\ handle = FALSE
    /\ store = Empty /\ durable = Empty
    /\ call = Idle /\ result = Idle /\ calls = 0

Started == calls < MaxCalls /\ calls' = calls + 1

\* nvs_init: a store that cannot be initialised is erased and tried again,
\* and the namespace counts as open whatever nvs_open returned.
NvsInit ==
    /\ ~isOpen /\ call = Idle
    /\ store' \in {store, Empty}
    /\ durable' = store'
    /\ handle' \in BOOLEAN
    /\ isOpen' = TRUE
    /\ UNCHANGED <<call, result, calls>>

\* nvs_set_string and set_blob: the results the library can give, and the
\* store afterwards.
SetOutcomes(key, value) ==
    IF ~isOpen THEN {<<EspFail, store>>}
    ELSE IF ~handle THEN {<<EspErrNvs, store>>}
    ELSE {<<EspOk, [store EXCEPT ![key] = value]>>, <<EspErrNvs, store>>}

\* nvs_get_string: a key never set is an error of the library.
GetOutcomes(key) ==
    IF ~isOpen THEN {EspFail}
    ELSE IF ~handle \/ store[key] = Nothing THEN {EspErrNvs}
    ELSE {EspOk, EspErrNvs}

\* set_ap_credentials is called.
SetCredentials(ssid, password) ==
    /\ call = Idle /\ Started
    /\ call' = [op |-> "credentials", ssid |-> ssid, password |-> password, at |-> "ssid"]
    /\ UNCHANGED <<isOpen, handle, store, durable, result>>

\* Its two writes; a negative result ends it.
WriteCredential ==
    /\ call.op = "credentials"
    /\ \E out \in IF call.at = "ssid" THEN SetOutcomes("ap_ssid", call.ssid)
                                      ELSE SetOutcomes("ap_password", call.password) :
          /\ store' = out[2]
          /\ IF out[1] >= 0 /\ call.at = "ssid"
             THEN call' = [call EXCEPT !.at = "password"] /\ UNCHANGED result
             ELSE /\ call' = Idle
                  /\ result' = [op |-> "credentials", ssid |-> call.ssid, password |-> call.password,
                                code |-> IF out[1] < 0 THEN -1 ELSE 0]
    /\ UNCHANGED <<isOpen, handle, durable, calls>>

\* get_ap_credentials, in two reads.
GetCredentials ==
    /\ call = Idle /\ Started
    /\ call' = [op |-> "read", at |-> "ssid"]
    /\ UNCHANGED <<isOpen, handle, store, durable, result>>

ReadCredential ==
    /\ call.op = "read"
    /\ \E code \in GetOutcomes(IF call.at = "ssid" THEN "ap_ssid" ELSE "ap_password") :
          IF code >= 0 /\ call.at = "ssid"
          THEN call' = [call EXCEPT !.at = "password"] /\ UNCHANGED result
          ELSE call' = Idle /\ result' = [op |-> "read", code |-> IF code < 0 THEN -1 ELSE 0]
    /\ UNCHANGED <<isOpen, handle, store, durable, calls>>

\* set_global_ipv6, one write.
SetGlobalIpv6(ip) ==
    /\ call = Idle /\ Started
    /\ \E out \in SetOutcomes("global_ipv6", ip) :
          /\ store' = out[2]
          /\ result' = [op |-> "ipv6", ip |-> ip, code |-> IF out[1] < 0 THEN -1 ELSE 0]
    /\ UNCHANGED <<isOpen, handle, durable, call>>

\* What the board comes back with: whatever was not committed may be old or
\* new, each key by itself.
Reboot ==
    /\ \E kept \in SUBSET Key :
          store' = [k \in Key |-> IF k \in kept THEN store[k] ELSE durable[k]]
    /\ durable' = store'
    /\ isOpen' = FALSE /\ handle' = FALSE
    /\ call' = Idle /\ result' = Idle

PowerLoss == Reboot /\ UNCHANGED calls

\* get_global_ipv6: get_blob hands the length itself to nvs_get_blob, which
\* takes it for an address once it has found the key; reading there ends in
\* the panic handler, and the board restarts.
GetGlobalIpv6 ==
    /\ call = Idle /\ Started
    /\ IF isOpen /\ handle /\ store["global_ipv6"] # Nothing
       THEN Reboot
       ELSE /\ result' = [op |-> "read", code |-> IF isOpen THEN 0 ELSE -1]
            /\ UNCHANGED <<isOpen, handle, store, durable, call>>

\* _nvs_commit.
NvsCommit ==
    /\ call = Idle /\ Started
    /\ \E code \in IF ~isOpen THEN {EspFail} ELSE IF ~handle THEN {EspErrNvs} ELSE {EspOk, EspErrNvs} :
          /\ durable' = IF code = EspOk THEN store ELSE durable
          /\ result' = [op |-> "commit", code |-> code]
    /\ UNCHANGED <<isOpen, handle, store, call>>

\* _nvs_close: the handle is closed only when the namespace counts as closed
\* already, so the one in use never is.
NvsClose ==
    /\ call = Idle /\ Started
    /\ handle' = IF isOpen THEN handle ELSE FALSE
    /\ isOpen' = FALSE
    /\ UNCHANGED <<store, durable, call, result>>

Next ==
    \/ NvsInit \/ WriteCredential \/ GetCredentials \/ ReadCredential
    \/ GetGlobalIpv6 \/ NvsCommit \/ NvsClose \/ PowerLoss
    \/ \E u, v \in Value : SetCredentials(u, v)
    \/ \E ip \in Value : SetGlobalIpv6(ip)

Spec == Init /\ [][Next]_vars
-----------------------------------------------------------------------------
\* wifisettings.h: set_ap_credentials returns 0 when it succeeded and -1 when it
\* failed, so after a 0 the name and the password are both in the store.
SuccessMeansStored ==
    (result.op = "credentials" /\ result.code = 0) =>
        store["ap_ssid"] = result.ssid /\ store["ap_password"] = result.password
=============================================================================
