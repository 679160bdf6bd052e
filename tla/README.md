# A verification project for the NRC7394 host driver

The repository is the host side of a Wi-Fi HaLow (802.11ah) modem: a Linux
mac80211 driver (`package/src/nrc`) that talks to the firmware of the modem
over SPI, a command-line application that sends it netlink commands, USB-SPI
bridge drivers and start-up scripts. This directory holds TLA+ models of the
driver, the TLC configurations that check them on small instances, and TLAPS
proofs of the theorems about them.

All source paths below are relative to `src/package/src/nrc/`, those of the
command-line application (`cli_*.c`, `main.c`) to `src/package/src/cli_app/`. The build that
is modelled is the default one of its Makefile and `nrc-build-config.h`:
`CONFIG_USE_TXQ`, `CONFIG_SUPPORT_THREADED_IRQ`, `CONFIG_SUPPORT_TX_CONTROL`,
`CONFIG_SUPPORT_BD`, `NRC_BUILD_USE_HWSCAN`, without `CONFIG_USE_SCAN_TIMEOUT`.

## 1. Inventory

### 1.1 Components

| Component | Files | State | Operations | What makes it correct |
|---|---|---|---|---|
| Transmit path | `nrc-trx.c` (`nrc_mac_tx`), `nrc-mac80211.c` (txq, tasklet), `hif.c` (queues, `nrc_hif_work`), `nrc-hif-cspi.c` (`spi_xmit`, `spi_update_status`) | txq list, `tx_credit[]`, `tx_pend[]`, two hif queues, `skb_frame`, slot `head/tail`, `front[]/rear[]` | enqueue, wake, tasklet, work, status read, reset | nothing written without a slot; no AC over its credit; `tx_pend` counts what is queued; order kept; everything queued leaves |
| WIM request/response | `hif.c` (`nrc_xmit_wim_request_wait`, `..._and_return`), `wim.c` (`nrc_wim_response_handler`) | per command a completion, a mutex and a response skb | request, wait, time out, deliver response | a caller gets the response to its own request, or a time-out; the mutex is released; nothing leaks |
| TWT responder scheduler | `nrc-twt-sched.c`, `nrc-mac80211-twt.c` | entry table, per entry the agreements (`flow`), counters `sub_num`, `alloc_num`, `min_num_in_group`, per station a bit mask | init, start, stop, deinit, add, delete, TSF worker | counters agree with the agreements; a group never exceeds its size; no slot leaks |
| TWT requester | `wim.c` (`nrc_wim_set_twt_requester`) | none in the driver | a flag for the target | not modelled |
| SPI receive path and slot protocol | `nrc-hif-cspi.c` (`spi_irq`, RX thread, `spi_rx_skb`, `spi_reset_rx/tx`) | RX slot `head/tail`, irq enable mask, wait queue | irq, RX loop, mask, reset | no slot read twice or skipped; the interrupt is not left masked |
| Power save | `nrc-pm.c`, `nrc-ps.c`, `hif.c` (wake-up), `nrc-mac80211.c` (dynamic ps timer) | `drv_state`, `ps_enabled`, `wake_done`, timers | sleep, wake, resume, timer | frames are not sent to a sleeping target; a wake-up completes or fails cleanly |
| Hardware scan | `nrc-mac80211.c` (`nrc_mac_hw_scan`, `nrc_mac_cancel_hw_scan`), `wim.c` (SCAN_COMPLETED) | `scan_mode` | start, cancel, completion event | each started scan is completed once |
| Interfaces, stations, restart | `nrc-mac80211.c` | `vif[]`, `enable_vif[]`, `i_vif->index`, station lists, `drv_state` | add, change and remove an interface, the monitor, watchdog and user restart | indices unique and in range; a restart leaves a consistent state, in the target too |
| Vendor elements | `nrc-mac80211.c` (`nrc_vendor_*`, `vcmd_backup_*`) | four shared buffers, a backup per index, the remote-command timer | set, remove, back up, reinstall | what the user set is in the air, after a reset of the target too |
| Station life cycle | `nrc-mac80211.c` (`nrc_mac_sta_state`) | `i_sta->state` and what hangs on it | up and down the states of mac80211, re-authorisation | what hangs on a station goes with it |
| Block ack | `nrc-mac80211.c` (`nrc_mac_ampdu_action`, `nrc_tx_ba_session_work`, `rx_h_check_sn`) | session state per TID, last sequence number | start, stop, operational, retry work; reset of mac80211's reorder buffer | state follows mac80211's sessions; no long run of frames is dropped as out of date |
| BSS max idle | `nrc-pm.c` | per station idle timer and count | keep-alive, expiry sweep | an active station is not dropped, an idle one is |
| Beacon monitor | `nrc-mac80211.c` (`nrc_bcn_mon_timer`) | timer, `is_bcn_timeout` | beacon, scan, expiry | loss is reported when beacons stop, even during a scan |
| Keys and frame handlers | `nrc-mac80211.c` (`nrc_mac_set_key`), `wim.c` (`nrc_wim_install_key`), `nrc-trx.c` | `i_sta->ptk`, `gtk`, `sw_enc`, `cap_mask` | install, remove, refuse | a frame is encrypted once and decrypted once |
| Firmware download | `nrc-fw.c`, `nrc-init.c` | offset, remaining bytes, fragment index | fragment, acknowledge, ready | the image is sent whole and in order |
| Start-up, restart and removal | `nrc-hif-cspi.c` (probe, remove), `nrc-init.c` | what is allocated, registered and started | probe, start, stop, restart, unwind | a failure leaves nothing behind |
| Netlink interface | `nrc-netlink.c` | shell state, signal monitor, `genl_mutex` | one handler at a time, before and after it wake and sleep | a command does not block the next ones |
| Command-line application | `cli_cmd.c`, `cli_util.c`, `cli_netlink.c`, `main.c` | the reporter thread and its flags | commands, retries, reporter | a success was carried out; commands end |
| S1G tables, board data, mac80211-ext, statistics, debug, SSP, USB bridges, scripts | `nrc-s1g.c`, `nrc-bd.c`, `mac80211-ext/`, `nrc-stats.c`, `nrc-debug.c`, `nrc-ssp.c`, `ft232h-usb-spi/`, `ch347-usb-spi/`, `evk/` | tables, formatting | parse, format, table look-up | no interesting state: not modelled |

### 1.2 How they interact

    mac80211 --nrc_wake_tx_queue--> txq list --tasklet--> hif queue[0] --\
    mac80211 --nrc_mac_tx---------------------------------^              +--nrc_hif_work--> SPI TX slots
    anyone   --nrc_xmit_wim_request----> hif queue[1] -------------------/
    SPI irq  --spi_irq--> spi_update_status --credit report--> tx_credit, tasklet
                                           \--notifications--> reset, reload, disable
    SPI RX thread --hif_receive_skb--> frames to mac80211, WIM responses, WIM events
    CLI, test agents --generic netlink--> handlers --WIM request, wait--> target
    SPI irq --WDT, FW ready--> nrc_mac_restart --> interfaces, scan, stations
    dynamic ps timer, mac80211, netlink --> sleep and wake-up of the target

The contexts that run concurrently are the callers of mac80211's hooks (process
or softirq), the tx tasklet, the single-threaded work queue of the hif layer,
the threaded irq handler, the RX thread, the timers, the netlink handlers and
the firmware. They share `drv_state`, `fw_state`, the atomics of the credit
scheme, the SPI counters and the per-command response slots.

### 1.3 What is hard

 * two flow controls (slots and credits) over counters of 16 and 8 bits, read
   and written from different contexts without a common lock;
 * a worker that holds two buffers in local variables and returns on several
   paths;
 * requests with a time-out whose late answers meet the next request;
 * resets by the watchdog, by a radio-disable notification and by a firmware
   reload, all in the middle of everything else;
 * a scheduler whose counters are spread over three structures;
 * a target that sleeps while frames, commands and interrupts go on;
 * three contexts that end one scan, two that restart the same interfaces;
 * state that exists three times (mac80211, driver, target) and is kept in step
   by calls that may be refused: interfaces, aggregation sessions, keys;
 * a start of a dozen steps each of which has its own unwinding.

The concrete hazards, each at its line and with the properties that watch it,
are in `PROJECT.json`.

## 2. Modules, runs and plan

| Section | Modules | Instance and run | Proof module |
|---|---|---|---|
| 3 | `TxPath` (implements `TxChannel`) | `MCTxPath`: `tx_order`, `tx_faults` | `TxPath_proof` |
| 4 | `WimRequest` | `MCWimRequest`: `wim_once` | `Link_proof` |
| 5 | `TwtSched` | `MCTwtSched`: `twt_table` | `Sleep_proof` |
| 6 | `SpiLink` | `MCSpiLink`: `spi_rx` | `Link_proof` |
| 7 | `PowerSave` | `MCPowerSave`: `ps_sleep` | `Sleep_proof` |
| 8 | `Scan` (with the beacon monitor) | `MCScan`: `scan_ends` | `Scan_proof` |
| 9 | `Interfaces` over `VendorIe` | `MCInterfaces`: `vif_table` | `Interfaces_proof` |
| 10 | `Bringup` (with the firmware download) | `MCBringup`: `bringup` | `Bringup_proof` |
| 11 | `Peers` over `BlockAck` and `MaxIdle` | `MCPeers`: `peers` | `Stations_proof` |
| 12 | `Frames` over `Keys` and `RxReorder` | `MCFrames`: `frames` | `Stations_proof` |
| 13 | `Cli` over `Netlink` | `MCCli`: `console` | `Cli_proof` |

The modules that compose others do it by EXTENDS: `Interfaces` drives the
elements of `VendorIe` from its interfaces and restarts, `Peers` drives sessions
and idle timers from the life of a station, `Frames` ends the sessions of
`RxReorder` with the keys of `Keys`, `Cli` is the client of `Netlink`.
`TxChannel` is the abstract promise that `TxPath` is shown to keep (a refinement
with `INSTANCE ... WITH`).

Every run is expected to pass, with `CHECK_DEADLOCK FALSE`, because in each of
them the environment is bounded and then rightly stops; where the code itself
can get stuck the sections say so. Where the code departs from its texts, or a
property needs an exception, the property states what does hold, the exception
is a named part of it (`leaked`, `astray`, `resynced`, `quiet`, `Wedged`, `Intact`, `Unharmed`,
`cut`, `missed`, `misled`, `dropped`, `stranded`, `overlap`, `Dead`, `"stuck"`, `late`,
`"fallback"`, `ShellLeft`, `stray`, `Hung`), and the section says what happens there. A
hazard that such an exception names is not one the property watches: the note of
the hazard says so.

All of the plan's modules are written. What is left for later work: a refinement
of `WimRequest` to a remote call, with the requests of `Netlink`, `Scan` and
`Keys` going through it instead of each having its own waiting; `tx_pend` and the slot counters in one model of the link.

Section 14 lists what is not modelled and what is only model-checked.

## 3. The transmit path: `TxPath`, `TxChannel`, `MCTxPath`, `TxPath_proof`

### 3.1 Correspondence

| State | Code |
|---|---|
| `txq`, `woken` | mac80211's software queue of an AC, and callers on their way into `nrc_wake_tx_queue` |
| `txqList`, `taskSched`, `taskRun`, `quota` | `nw->txq`, the state of `nw->tx_tasklet`, the local `credit` of `nrc_push_txq` |
| `txCredit`, `txPend` | `nw->tx_credit[]`, `nw->tx_pend[]` |
| `frameQ`, `wimQ`, `queued` | `hdev->queue[0]`, `hdev->queue[1]`, `hdev->work` pending |
| `pc`, `inWim`, `cur`, `held` | where `nrc_hif_work` is, its `skb` and `skb_frame` |
| `gap` | `slot[TX_SLOT].head - slot[TX_SLOT].tail`, 16 bits (`SlotMod`) |
| `front`, `rear` | `priv->front[]`, `priv->rear[]`, 8 bits (`CtrMod`) |
| `armed`, `busy`, `inTarget`, `tgtRear`, `irq` | the target, as the driver's reads of the status registers presuppose it |
| `made`, `faults`, `sent`, `leaked` | bounds and histories |

Each action is one critical section or one stretch of a handler between two
points where another context can get in: `TaskletPick`/`TaskletPush` are the
steps of `nrc_tx_tasklet`/`nrc_push_txq`; `WorkStart`, `WorkWim`, `WorkFrame`,
`WaitForXmit`, `WaitWake`, `XmitTest`, `XmitCount`, `XmitWrite`, `FreeSkb` those of
`nrc_hif_work` and the two SPI operations it calls; `IrqUpdate` is the threaded irq.
`spi_xmit` takes no lock that `spi_config_fw` takes, so its test of `drv_state`, its
counting and its write are three steps. `WaitTimeout`, `XmitError`, `WDisable`,
`WdtExpired` and `FwReload` are the faults the code handles; each uses up one of
`MaxFault`. A watchdog reset is `WdtExpired` (driver stopped, counters reset),
`WdtClean` (queues emptied), `WdtReady` (driver running again) and `WdtUpdate` (the
counters read for the first time), all on the irq thread, which does nothing else
meanwhile (`noti`).

Abstractions. A skb is a record of a number (its order of creation), a kind, an
AC and the slots it takes; the same number counts its credits (the code rounds
the length up to a slot, `nrc-trx.c` and `hif.c` agree on the rounding). `Init`
is the state after `nrc_fw_start`, when the first credit reports have come in, or any later one in which all that was sent has been released (`CtrStart`).
A read of the status registers (`UpdateStatus`) is one step: the irq thread, the
worker and the RX thread all do it without a lock, into one buffer, and what a
torn read does is the subject of `SpiLink` (section 6). `tail += nr_slot` and
`front[ac] += nr_slot` are one step each with the reads they make. `UpdateStatus`
calls `spi_reset_tx` when it finds more free slots than the ring has (`Overrun`);
the WIM it sends to the target is in `SpiLink`. What is
written to a target that is just restarting arrives or does not (`XmitWrite`).
`FwReload` is the last thing that happens in this module: the download itself is
in `Bringup` (section 10). Left out: the loopback mode, the rewriting of
power-save fields by `nrc_hif_ctrl_ps`, the deauthentication of a
sleeping station (section 7), and the contents of frames.

### 3.2 Runs

| Run | Bounds | Question and answer |
|---|---|---|
| `tx_order` | 1 AC, 3 skbs of one slot, 1 slot, 2 credits, counters modulo 3, `front` and `rear` from 2 on; data, deauth, WIM | `ImplementsChannel`: holding back, putting back, overtaking and losing frames still form the channel of `TxChannel`: at most once, data of an AC in order, WIMs in order. `Drains`: with a healthy target everything handed to the driver leaves it. One slot and three skbs suffice to have one skb in the worker's hands, one held and one to overtake; there are more skbs than slots and credits; `front` wraps at the first frame, so that the others meet `Room`'s case after a wrap, and the slot counters go round once. |
| `tx_faults` | 2 ACs, 2 skbs of one or two slots, 2 slots, 1 credit, 1 fault; data and WIMs | `PendAccounted` (every slot charged to an AC belongs to a frame of that AC) and `SlotsConserved` (what the host may write, what is ready and what is written fit the ring) with each kind of fault at each moment, between the three steps of `spi_xmit` as well. |

`tx_faults` keeps byte counters modulo 8 and a slot counter modulo 16 so that
fewer skbs than counter values are in flight, as in the driver (at most 40
credits, 256 values). That `front` wraps is needed for `Drains`: were it to
run on beside a `rear` that wraps, the AC would be left without credit. Deauthentication frames,
which the faults treat as any frame, are in `tx_order` only.

Fairness (`tx_order`): the kernel runs a scheduled tasklet, a pending work
item and an asserted interrupt (weak fairness of each); a caller of
`nrc_wake_tx_queue` gets its spin lock; the target makes progress. No fairness
on the environment's submissions or on faults; `MaxFault = 0` there, because a
time-out legitimately loses the kick (the next submission makes up for it).
`Drains` needs an AC to have more credit than one frame takes: see 3.4.

The quota of `nrc_push_txq` counts skbs and `tx_pend` counts slots: a queue with 2
credits can push 2 skbs of 2 slots, so an AC can exceed its credit by that factor.

### 3.3 What is proved

`TxPath_proof` proves, for any number of ACs, skbs, slots, credits and faults,

 * `SpecInv`: `Spec => []Inv`;
 * `SpecPendAccounted`: `Spec => []PendAccounted`;
 * `SpecOrder`: `Spec => []OrderInv`;
 * `SpecImplementsChannel`: `Spec => ImplementsChannel`, the refinement of
   `TxChannel`;
 * `SpecSlotsConserved`: `Spec => []SlotsConserved`, for every width of the
   counters that `TxPathAssumption` allows;
 * `SpecTypeOK`: `Spec => []TypeOK`.

`PendAccounted` is not inductive. To take a frame off `tx_pend` one must know
that exactly its slots were in the sum: it is in one place only and no other
frame has its number. `Inv` therefore adds `Shape` (what each queue can hold, in
particular `cur = NoSkb` exactly between two skbs), `Places` (no frame is in two
of: frame queue, worker's `cur`, worker's `held`, lost) and `Unpushed` (the
frames still with mac80211 are distinct and in none of these places). The sum is
the cardinality of a set of pairs (frame, slot), so that adding and removing a
frame is a disjoint union; the lemmas `UnitsAdd`, `AccountAdd` and `AccountRemove`
carry that argument and every action cites one of them or `SamePlaces`.
The assumptions are `TxPathAssumption` and `NoSkbAssumption`, which TLC evaluates
in every run.

The refinement needs to know more: that the frame the worker transmits is the
first of its lane among all that are under way. `OrderInv` adds `Numbered` (ids
under way have been given out; a txq holds data only), `InOrder` (each queue is
in the order of the ids, and what is further along precedes what is behind: `cur`
before `held`, `held` before the frame queue, all of these before the txq) and
`Received` (what the target has precedes what is under way, and never comes
again). Putting the held frame back in front of its queue keeps the order because
`held` precedes the queue; an overtaking WIM is of another lane. `StepKinds` says
that every step submits a skb, loses some, transmits one or leaves the channel
alone, which are the steps of `TxChannel`.

`SlotsConserved` is about a host that counts by itself (`gap`, modulo the width of
head and tail) what the target's ring holds. `SlotInv` says: what the host knows to
be free, what is ready, what is written and what is being written (`Writing`) fit the
ring; a worker past its wait finds the slots it waited for still free, because only
the worker takes slots. A watchdog reset breaks the second half: it takes the slots
away from a worker between its wait and its counting (`caught`), which then moves
tail past head. From then on the host's difference is off by one turn of the counter
(`early`), until a status read catches up; `Known` subtracts that turn. The reset may
also fall between the counting and the write: then the frame arrives in a ring that
nobody has counted it in (`astray`, at most one frame). `early` needs `caught`, and
a status read ends it exactly when the sum reaches the width. When the host finds
more free slots than the ring has, it calls `spi_reset_tx` and the property claims
nothing more (`resynced`). The arithmetic modulo the width is in `SlotArith`. TLC
reaches `early`, `astray` and `resynced` in `tx_faults`.

Only model-checked: the liveness properties.

### 3.4 Where the code departs from its comments

 * `hif.c:194` says "the deauth frame should be transferred first even
   though the current for-loop is for the queue of WIM", but only the frame at the
   head is looked at, and only when no frame is held already (`WorkWim`).
 * A WIM that arrives between the two loops of `nrc_hif_work` makes it
   return with the held frame in a local variable (`hif.c:222`). `tx_pend` keeps
   counting it: it is the `leaked` of `PendAccounted`.
 * "If the credit is insufficient, give way to the next txq"
   (`nrc-mac80211.c:610`), but the tasklet leaves its loop there, and the kick that
   `nrc_hif_free_skb` once gave is under `#if 0` (`hif.c:123`). When a frame takes
   all the credit of its AC (four slots of background traffic) and its credit
   report is handled before the worker takes it off `tx_pend`, the last kick finds
   no credit; a queue with credit that is next in line waits until mac80211 wakes
   some queue again.

The model keeps one more thing a reader should know: after a wrap of the byte counter
`front`, `spi_credit_skb` computes `(255 - rear) + front`, one less than the slots in
use (`Room`); it reports one credit too many until `rear` wraps as well.

Consequences of a reset in the middle of `spi_xmit` (H18) that TLC shows in the model
and that the theorem's exceptions name. An uncounted frame is written into a ring the
host takes for empty; when the target hands its slot out again, head is one ahead, the
host reads a gap larger than the ring and resynchronises. A frame counted in `front`
after the reset and lost by the restarting target is never released: its AC has a
credit less for good (none, where there was one). A frame counted before the reset and
written after it is released without having been counted: `rear` passes `front`, and
the AC reads as full until more is sent. No text of the repository promises otherwise.

## 4. Requests and responses: `WimRequest`, `MCWimRequest`, `Link_proof`

### 4.1 Correspondence

| State | Code |
|---|---|
| `mtx` | `nw->target_mtx` |
| `resp[k]`, `done[k]` | `wim_resp[k].skb` (named by the request it answers), the counter in `wim_resp[k].work` |
| `rxDone` | the RX thread between `mutex_unlock` and `complete` in `nrc_wim_response_handler` |
| `pc`, `req`, `answer` | a thread in `nrc_xmit_wim_request_wait` or `nrc_xmit_wim_request_and_return`, its request, what the call returned |
| `outstanding` | requests on their way to the target, or answers on their way back |
| `returned`, `freed`, `quiet` | histories |

The two request functions differ only in what they do when they find no
response: the first reads through the pointer, the second returns an error, both
with the mutex locked (`TakeNull`; `Returning` says who calls the second one). A
caller is in the critical section from `ReqSend` to `ReqArm`, because the target
can answer, and the RX thread complete an earlier response, between the two.
`ReqSend` covers the three outcomes of `nrc_xmit_wim`: queued, silently dropped
(suspended), refused. The completion is modelled by its counter, as the kernel
implements it: `completion_done` is `done > 0`, whoever waits.

The target is assumed to answer the requests of one command in turn; commands
are answered in any order.

### 4.2 Runs

| Run | Bounds | Question and answer |
|---|---|---|
| `wim_once` | 2 callers, one command in common (also sent without waiting) and one of the second caller alone; 4 requests, 1 late, 1 lost | `OneOwner`: no double free, no response handed out twice, even when callers collide and one of them wedges. `WokenByOwn`: after a time-out, a request of an exclusive command sent when nothing of its command is on its way is woken by its own response: the late responses do no lasting harm. `Returns`: unless the mutex is left locked (`Wedged`), every call returns, refused, dropped, answered, late or never. |

Four requests are enough for a late response to meet the next request, for the
answer to that one to overtake the caller, and for a third request to start in
the meantime. Fairness: timers run out (`Waiting`), the target answers what
reached it (`Rx`), and the mutex is handed to each thread queued for it: strong
fairness of `Locking` and `Rx`, which the hand-off of the kernel's mutexes
justifies.

### 4.3 What is proved

In `Link_proof`, which also holds the proofs of section 6: `SpecTypeOK`, `SpecOneOwner` and `SpecWokenByOwn`, for any number of callers,
commands, requests, time-outs and losses. `OneOwner` alone is not inductive: a new request must get a
number nobody uses and the outstanding requests must have different numbers
(`Numbered`); the bound on `done` needs that the completion is at zero while the
RX thread is about to raise it. `WokenByOwn` needs `OwnOnly`: a caller that is alone
with its command and sent its request in the quiet has only that request and its
response on the way, no response comes before it has armed the completion (it
holds the mutex that the RX thread needs to look the request up), and from then on the
completion is at zero or its own response is there. Liveness is model-checked
only.

### 4.4 Where the code departs from its comments

 * `hif.c:614`, `hif.c:636`, `hif.c:693`: the second request of a command frees the response the first
   caller was woken for. That caller dereferences NULL under `target_mtx` or
   returns with it locked; from then on no request and no received response gets
   through (`Wedged`). A late response does the same: the next request may free it
   while the RX thread is about to complete it, and is then woken for nothing.
   Threads that do issue the same command: the TSF reads of the TWT
   worker and of the debug file, the transmit statistics of mac80211 and of debugfs.
 * A late response (`hif.c:635`) is returned to the next request.
   ("No completion waiters, free the SKB", `wim.c:800`, tests the counter, which is
   zero after a time-out as well).

## 5. The TWT scheduler of an access point: `TwtSched`, `MCTwtSched`, `Sleep_proof`

### 5.1 Correspondence

| State | Code |
|---|---|
| `algo`, `started`, `vif` | the fields of `struct nrc_twt_sched` |
| `sub[e]`, `allocNum`, `minNum` | `entries[e].sub_num`, `alloc_num`, `min_num_in_group` |
| `held` | the nodes of the `flow_entry_list`s, as triples of entry, station record and a number that tells equal nodes apart; a place counted although its node could not be allocated belongs to `None` |
| `mask[s]`, `flow[s]`, `entry[s]` | bit 0 of `sta->twt.flowid_mask`, the interval and the entry pointer of `flow[0]` |
| `reply[s]` | the last answer to the station |
| `on`, `idle`, `up` | the interface and the BSS max idle period of a station, the interfaces that are up |
| `stopping` | `nrc_twt_sched_stop` between `cancel_work_sync` and its end, with the mutex held |
| `timerOn`, `pend`, `running` | the hrtimer; `get_tsf_work` queued, and past the start of its function |
| `missed`, `setups`, `fails`, `restarts` | a history, and bounds |

`Setup` is the whole of `nrc_mac_add_twt_setup`: the look at the existing flow
(`Repeat`), the fit of the interval (`Cut`, `Rounded`, `Fits`), the search
(`Candidates`, `NewMin`, `Place`) and the three ends (`Accept`, `NoPlace`,
`NoMemory`). Everything but the TSF worker and the timer runs under the mutex of
the scheduler, so each of these is one step; what interleaves is the order of
calls, the worker, and the stop that waits for it.

An interval is a length and a form: a mantissa and an exponent name the same
interval in many ways, and the scheduler compares pairs, not lengths. `"own"` is
the pair the scheduler would write. The loops that cut the interval are modelled
by what they compute: the largest multiple that is below the idle period, then
the largest power of two up to 8. `IdleAssumption` (an idle period below the
interval does not occur) is what `nrc_twt_sched_start` checks before it starts.

Left out: the answer that is kept between an association request and its response
(`assoc_flowid`); the service times that `get_next_twt` computes and the statistics of
`nrc_twt_sched_start_update`; `alloc_index` and `multi` (display only); the TSF
arithmetic of the worker. At least one entry is assumed: parameters that give
none divide by zero in `twt_param_check`.

### 5.2 Runs

| Run | Bounds | Question and answer |
|---|---|---|
| `twt_table` | 2 stations, 2 access points, 2 entries, groups of 2, both algorithms; intervals 1 and 7 times the scheduled one, idle periods 0 and 2.5 times it; 4 set-ups, 1 failed allocation, 1 restart | all six properties, over every order of set-ups, teardowns, removals, starts, stops and worker steps. Four set-ups by two stations, with a place lost to a failed allocation, fill both entries, empty them and fill them again; the second interval is cut by the idle period and by the power of two. |

The driver really can get stuck here: `nrc_twt_sched_stop` calls `cancel_work_sync`
with the mutex held, and a worker that has started waits for that mutex
(`StopBegin` with `running`, after which neither `StopEnd` nor `WorkerRun` can
happen). No text of the repository says that a stop returns, so no run is made of
it; it is among the hazards. `WorkerSafe` is the other side of that
`cancel_work_sync`: without it the worker reads through a NULL interface (the
mutant `IdleAny`).

No liveness is claimed for this component: its operations are calls.

### 5.3 What is proved

In `Sleep_proof`, which also holds the proofs of section 7: all six properties of `twt_table` and the types, for any number of stations, interfaces and
entries, any group size, set of requests and idle periods (`SpecTypeOK`,
`SpecCounted`, `SpecGroupCapSafe`, `SpecRoomIsFound`, `SpecAgreements`,
`SpecWorkerSafe`, `SpecDictateSettles`). The assumptions are `TwtAssumption` and
`IdleAssumption`; TLC evaluates them in each run.

The inductive invariant adds three parts:

 * `LowerBound`: under BALANCED, `min_num_in_group` never exceeds the smallest
   `sub_num`. The search raises it only when no entry has exactly that many, the
   deletion lowers it to the entry it shrinks. `RoomIsFound` follows.
 * `KnownAgree`: only a known station has an agreement; otherwise the `memset`
   of a new record would drop one.
 * `Scheduled`: timer, work and mutex belong to a started scheduler whose
   interface is up unless it is being stopped. `WorkerSafe` follows, with
   `Deinit`'s useless stop.

A place taken or given back is one element added to or removed from `held`
(`TakePuts`, `DeleteDrops`); `PutKeeps`, `DroppedKeeps` turn that into the
counters, `AgreePut`, `AgreeDropped`, `AgreeNobody` and `AgreeSame` into the
agreements. The first candidate exists because a set of naturals has a least
element (`Least`, from the well-foundedness of strict inclusion). What is
dictated is accepted because a power of two below the cut multiple is its own
rounding, and within the idle period (`AgreedWithin`, `AgreedFits`).

### 5.4 Where the code departs from its texts

 * "TWT Max STA Number in a Group" (`nrc-init.c:424`), but
   `find_unused_twt_entry` (`nrc-twt-sched.c:169`) takes entry 0 unseen after raising the minimum.
   Three set-ups leave two entries at 2 and 1; a teardown and a set-up in the
   second leave them there, but with a minimum of 0. The next search finds no
   entry at 0, raises the minimum to 1 and takes entry 0, which is full.
   `GroupCapSafe` says when this cannot happen.
 * "Same TWT Param", "same accept" (`nrc-mac80211-twt.c:430`), but the
   flow that is compared holds the scheduler's mantissa and exponent, not the
   station's. A station that uses another pair for the same interval and misses
   the answer is rejected when it asks again.

## 6. The slots of the SPI link: `SpiLink`, `MCSpiLink`, `Link_proof`

### 6.1 Correspondence

| State | Code |
|---|---|
| `rxHead`, `rxTail`, `txHead`, `txTail` | `priv->slot[RX_SLOT]`, `priv->slot[TX_SLOT]`, counters of 16 bits (`Mod`) |
| `status` | `priv->hw.status`, one buffer for three threads |
| `upd[t]` | where a thread is in `spi_update_status`: about to read, about to use what it read, about to look at the result |
| `rx`, `wrk` | where the RX thread and the worker are (`spi_rx_thread`, `spi_rx_skb`, `spi_wait_for_xmit`, `spi_xmit`) |
| `tgt` | the target's two queues and its counters, as the registers show them |
| `fetched`, `budget` | a history, and the bounds |

`StatusRead` and `StatusUse` are apart because another thread may fill the buffer
in between (`nrc-hif-cspi.c:541`, `:1300`). `RxFirst` and `RxBody` are the two
reads of a packet: the first slot, then the rest, for which the thread waits.
A failed transfer, a garbled register or a time-out uses up one of `Faults`; it
ends in `ResetRx` and `ResetTxTail`, which ask the target to start over and set
the host's counters while the other two threads go on.

Left out: the suspension of the link (in `PowerSave`), the polling mode, and the
mask of the interrupt: the race between masking it and the status read means that
nothing can be promised about progress, so no liveness is claimed here. A slot
from the middle of a packet is taken to be recognised as one that starts no
packet. The ten refreshes of the worker are covered by the bound on resets.

### 6.2 Run

`spi_rx`: counters modulo 8 that start at 7, so that they wrap at once; a queue of
2 slots to the host and 1 from it; 2 packets of one or two slots, 1 frame, 1
fault and 2 resets. `Counted`: the host's idea of both queues is the truth, minus
what is on its way, whichever thread last used which status. `Whole`: packets
arrive once, whole and in order. Both speak of a link that no fault has hit
(`Intact`): from a transfer that fails without a reset on, a packet put together
from two may be delivered, and one reset may follow another. A fault that the
code handles (a failed read of a first slot) leaves the link intact, and that is
where `tail` is moved back (the mutant `RxFirstFailsKept`). Two packets are
enough to mix, two slots make a packet that comes in two reads, and the window of
the counters needs `Mod > 2 * (Depth + TxDepth)` (`LinkAssumption`), which the
code's 65536 and 32 satisfy.

### 6.3 What is proved

`Link_proof` proves both properties, for every width of the counters, every length
of the queues, every set of packet sizes and starting points and any number of
packets, frames, resets and faults that `LinkAssumption` allows: `SpecCounted` and
`SpecWhole` (`LinkSpec => []Counted`, `LinkSpec => []Whole`).

Neither property is inductive. The invariant `LinkInv` says of an intact link, at
every step of every thread:

 * `RxLine`, `TxLine`: the four counters of a queue stand on one line round the
   circle: what the host has used, the head it has seen, the head in the shared
   buffer, and where the target is, at distances that add up to the slots that are
   there and not used yet (`Line`). So whichever thread fills the buffer, and
   whichever uses it and how late, a head only moves towards the target, and no gap
   is one that would reset the link (`Gaps`). This is where the window of the
   counters is needed.
 * `Calm`: no thread is in the middle of a reset and no reset is on its way.
 * `Stream`: the queue is a chain of whole packets (`Chain`) but for its two ends:
   the packet at the front, of which the RX thread has `need` slots still to read,
   and the one at the back, of which the target has `more` to send.

The types hold whether the link is intact or not. That an intact link was intact
before (`IntactBefore`) closes the induction.

## 7. Power save: `PowerSave`, `MCPowerSave`, `Sleep_proof`

### 7.1 Correspondence

| State | Code |
|---|---|
| `drv`, `fw`, `susp`, `parked`, `deaf` | `nw->drv_state`, `nw->fw_state`, `hif->suspended`, the parked RX thread, `cspi_suspend` with the interrupt off |
| `high`, `done` | the wake-up GPIO, the completion `wake_done` |
| `ps`, `idling`, `timer`, `queued` | `ps_enabled` and `ps_modem_enabled`, `IEEE80211_CONF_IDLE`, `dynamic_ps_timer`, `ps_work` |
| `pc["work"]`, `pc["mac"]` | the ps work, and the call of mac80211 under way |
| `irq`, `ev` | the irq thread and the notification it has read |
| `tgt`, `hifq` | the target, the WIMs on their way |

Two threads put the target to sleep, the ps work and mac80211; both go through
`Begin`, `SendPs`, `Suspend`, `Flush` and `End`, and each of the steps meets the
other thread, the irq thread (`IrqRead`, `FwDownload`, `ReadyFromPs`, `WakeDone`,
`FailedToEnterPs`, `WdtExpired`) and the target. `Transmit` is the frame of a txq
(`nrc_wake_tx_queue`): it raises the GPIO and waits in the list until the driver
runs again (`Sent`). `TransmitNow` is the frame that comes straight to
`nrc_mac_tx`: in deep sleep a deauthentication or a keep-alive (QoS null) raises
the GPIO too, but is freed there. A call of mac80211 raises it and waits (`Woken`,
`WakeTimeout`). `FwDownload` downloads the firmware to the target that wakes, or
does not find the file (`nrc_check_fw_file`): then `fw_state` stays LOADING.

Assumed: an idle interface sends nothing; mac80211 turns power save on only when
it is not idle; the dynamic timer outlasts the handling of a refused sleep; a
target asleep without listening for TIMs wakes only at the GPIO.

### 7.2 Run

`ps_sleep`: the five ways the module can be loaded that have one sleeper at a
time (`OneSleeper`), 3 calls, 2 frames, 1 TIM, 1 refusal, 1 missing file, 1 crash. `Agree`: at
rest the driver believes the target asleep exactly when it is. `FrameWakes`: a
frame of a txq that finds the target asleep leaves. `Returns`: every call of
mac80211 comes back, harmed or not. `Dozes`: a quiet station with dynamic power save and deep sleep falls
asleep. Three calls allow an operation, its opposite and a third on top of the
second. Fairness: threads, timers, works and the target's answers; none of calls,
TIMs, refusals, missing files and crashes.

`Agree`, `FrameWakes` and `Dozes` are `Unharmed`: the host has not slept itself,
the target has not crashed and has found its firmware. The code does not hold them otherwise: a resume
of the host takes the target for awake, and a watchdog reset in the middle of the
entry into power save leaves the link suspended and the RX thread parked: the
handler of `nrc-hif-cspi.c:1142` leaves the resumption to `nrc_mac_restart`, which
resumes only when `fw_state` is no longer ACTIVE (`nrc-mac80211.c:1476`). Without
the firmware file the target stays in its boot loader and nothing asks again. With
two sleepers at a time (dynamic power save and idle mode together) the same
flags are set and cleared by both.

A deauthentication of a station in deep sleep is lost: `nrc_mac_tx` raises the
GPIO, empties the hif queues, copies the frame and frees the original
(`nrc-trx.c:154`). The copy would be sent by the irq handler once the target is
back (`nrc-hif-cspi.c:1198`), but the flag that tells it so is set only under
`REMOVE_DELAYED_DEAUTH`, which nothing defines. `TransmitNow` models what is left
of it; the sending, and what else hangs on the flag, cannot happen in this build.

Left out: the sleep that TWT forces, the beacon monitor (section 8).

### 7.3 What is proved

`Sleep_proof` proves `SpecAgree` (`PsSpec => []Agree`) for any number of calls,
frames, TIMs, refusals, missing files, crashes and host suspends, under the condition `OneWay`:
idle mode is not combined with dynamic power save or deep sleep, so that one thread
puts the target to sleep. Every configuration of the run satisfies it. It cannot be
dropped: with `idle_mode` and dynamic power save or deep sleep TLC finds two
sleepers that leave driver and target in disagreement.

`Agree` speaks of the moments of rest; the invariant `PsInv` says what holds in
between, of a station nothing has harmed:

 * `Course`: how far host and target are, by where the sleeper is. While it has
   suspended the hif, the order to sleep is in the queue exactly once (`Ordered`) or
   the target has obeyed or refused it (`Obeyed`); once it is through, the target
   sleeps, or one of the six stages of its way back has been reached (`Away`).
 * `Roles`: what each thread may be doing, which keeps the second thread from
   falling asleep as well.
 * `Waits`: in idle mode nothing completes `wake_done` but the return from power
   save, so the wait of mac80211 does not end while the target sleeps, and the
   target, which does not wake for TIMs then, wakes only when mac80211 waits for it.
 * `Closed`: in deep sleep mode the queues are closed from before the order to
   sleep is queued until it is sent or flushed, so no deauthentication empties the
   hif queues of it.

Only model-checked: `FrameWakes`, `Returns` and `Dozes`, which are liveness.

## 8. Scan and beacon loss: `Scan`, `MCScan`, `Scan_proof`

### 8.1 Correspondence

| State | Code |
|---|---|
| `scan_mode`, `drv` | `nw->scan_mode`, `nw->drv_state` |
| `associated`, `is_bcn_timeout`, `bcn` | `nw->associated_vif`, the flag of a loss put off, `bcn_mon_timer` |
| `pc[t]`, `then[t]` | what a caller of mac80211, the RX thread and the irq thread are doing, and what follows a cancellation |
| `asked`, `poll` | mac80211: its scan, its polling of the AP after a loss |
| `wims`, `events`, `tgt`, `ap` | WIMs and events under way, the target, the access point |

A cancellation is three steps (`Cancel` tests `scan_mode`, `Stop` tells the target
and clears it, `Complete` calls `ieee80211_scan_completed`), and four callers on three
threads take them: mac80211 (`CancelHwScan`, and `HwScan` for a mode that is still
set), the handler of SCAN_COMPLETED (`ScanCompleted`), the restart of a station
(`Restart`) and the W_DISABLE notification (`WDisable`, `Disabled`). No lock covers
the three steps, and none does in the model. `HwScan`, `Request` and `SetMode` are the
start, in the order of the code (the mode is set after the request has been queued).
`ieee80211_scan_completed` sets a flag that a work of mac80211 takes (`over`,
`ScanWork`); a flag set when there is no scan stays and ends the next one.
`BcnMonTimer` puts a loss off while a scan is on and `DelayedLoss` reports it
after the scan.

Four variables are history: `set` (the present scan has set `scan_mode`), `own[t]`
(what `t` cancels is the present scan), `cut` (the present scan was completed by a
thread, or a flag, that meant another one) and `missed` (what should end the present
scan came before it had set `scan_mode`). No action reads them but those that write
them.

### 8.2 Run

`scan_ends`: 3 scans, 1 association, 1 crash or W_DISABLE. `ModeAgrees`: when no thread
is at work and mac80211 waits for a scan, the driver takes one to be on, without
exception; and the driver takes one to be on only if mac80211 waits, or the scan was
`cut`. `ScanEnds`: every scan ends, unless its end was `missed`. `LossFound`: the loss
of the AP is found, even when it falls into a scan that was neither. Three scans let
an event of the first meet the second and a cancellation of the second meet the
third. Fairness: threads, works, timers and a target that works or reboots; none of
beacons, calls and crashes.

The two exceptions are what the code does, and TLC shows each with a trace when it
is taken out of the property. `cut`: a thread that has found `scan_mode` set
(`nrc-mac80211.c:2907`) and is held up completes the next scan, and the mode which that
scan has set stays behind: the next beacon losses are put off until another scan.
`missed`: SCAN_COMPLETED, a restart or W_DISABLE that comes between the request and
`nrc-mac80211.c:2987` finds no scan to complete; mac80211 waits until it gives up the
scan itself. With `CqmOff` (the parameter `disable_cqm_on_scan`) the timer is stopped
for a scan and a loss in it is not found until a beacon has come: `LossFound` fails,
and the run is of the default, FALSE.

### 8.3 What is proved

`SpecModeAgrees` and `SpecModeTypes`, for any number of scans, associations and
resets, without a condition. `ModeAgrees` speaks of the moments of rest, so the
invariant says what holds at the others: `Young` (a scan that is being started has
not set the mode; if it is completed already, it was cut), `Owned` (a thread that
cancels the present scan does so after the scan has set the mode, and finds it
cleared when it completes), `Served` (mac80211 waits, but the mode is idle: some
thread is about to complete) and `Known` (the mode is set: mac80211 waits, or the
scan was cut, or is being started).

## 9. Interfaces, vendor elements, restart: `Interfaces`, `VendorIe`, `MCInterfaces`, `Interfaces_proof`

### 9.1 Correspondence

| State | Code |
|---|---|
| `vif`, `index[v]`, `up`, `type[v]` | `nw->vif[]`, `i_vif->index`, mac80211's open interfaces and their types; `Freed` is an interface mac80211 has freed without the driver knowing |
| `max_idle_timer`, `twt`, `stas`, `bcn` | the idle timer of an interface, the interface of the TWT scheduler, mac80211's stations and beacons |
| `irq` | where `nrc_mac_restart` is, on which slot, and for whom |
| `again` | mac80211's reconfiguration: interfaces to add again, to configure again |
| `tgt`, `tgtUp` | the types the target has per index; whether it runs |
| `buf`, `backup`, `byWdt`, `reinstall`, `remote`, `ies` | the vendor elements: `nw->vendor_skb_*`, `vcmd_backup_info[]`, the reinstallation work, `remotecmd_timer`, and what the target sends |
| `told`, `home` | history: the elements given through an interface since it came under its index (`home`) and not removed |
| `misled`, `dropped` | history: an interface was led to a slot that is not its own (9.2); interfaces that mac80211 closed without the driver |

`Open`, `OpenFails`, `Change`, `Close`, `OpenMonitor` and `CloseMonitor` are
mac80211's calls.
`WdtExpired`, `FwReady` and the steps of `nrc_mac_restart` (`NextSlot`, `RestartFreed`,
`RestartSta`, `RestartAp`, `WaitForStas`, `ReleaseAp`, `RestartDone`) are a restart, by the
watchdog or by the user (`UserRestart`), with whatever slots are used; `Readd`,
`ReaddFails` and `Reconfigure` are what mac80211 does then. `VendorIe` has one operator
for each operation on the
elements; `Interfaces` calls them where the code does (`SetElem`, `RemoveElem`,
`RemoteOff`, `Reinstall`, and inside the start of an interface and of a restart).

Adding an interface may fail after its slot is taken, when the device of its
address is not found (`nrc-mac80211.c:1243`), or because no slot is left
(`nrc-mac80211.c:1150`): the slot and the index stay as the attempt left them
(`OpenFails`). With invalid board data `nrc_mac_start` returns before it changes
anything, which is no step of the model. When an interface cannot be added again
after a restart, mac80211 removes those that it has added and closes all
(`ReaddFails`); it does not tell the driver of the others, and the TWT scheduler
may stay bound to one of them (`dropped`).

Assumed: during a restart mac80211 makes no other calls, except vendor commands
while the target is down; a target that reboots under a single station
restores that station's type itself, but not its elements. Where the index is -1
or an interface in the table was freed, the code addresses memory outside the
table, or memory that is someone else's: the model has what happens to the table
(`RestartFreed` releases any slot), not what happens elsewhere. Left out: channel
contexts, P2P and remain on channel, mesh interfaces, the elements for firmware
update, UTC and wake on WLAN (which are not backed up), the static credit cache
of `nrc-mac80211.c:2678`.

### 9.2 Run

`vif_table`: two interfaces and the monitor, two elements (one in the beacon, of
the remote commands, and one in probes, which is backed up), 1 station, 1 retry, 2
openings of an interface; and with these one of four budgets (`SomeBudgets`), from
which the behaviours start: 2 monitors, a crash and a user restart; an element set, a
crash and a user restart; an element set, a monitor and a crash; an element set, a
monitor and a user restart. 624,480 states. Two openings are enough for both
slots, for a failure before or after a success, and for an interface that comes back;
two monitors fill both slots with freed interfaces. With all of them in one
behaviour (two monitors, both restarts and an element) the safety properties hold as
well, in 1,721,525 states. `RestartEnds`: a restart comes to
its end even if stations do not go.
Fairness: the target comes back, the restart runs, mac80211 adds its interfaces
again or gives up.

`OwnIndex`: outside a restart an open interface has a valid index whose slot leads
back to it. `TargetKnows`: the target has each open interface with its type and,
once the reinstallation has run, the elements given through it since it came
under its index. Both hold until `misled`, which names the three ways in which
the code gives them up (without any one of them TLC refutes `OwnIndex`):

 * `nrc_alloc_vif_index` finds the interface by its address and does not set the
   index, which was cleared to 0 (`nrc-mac80211.c:1056`): wrong in any slot but the
   first. A user restart of an access point in slot 1 beside a monitor leads there,
   and an opening that failed before;
 * it takes a free slot in front of the one the interface has already, and the
   interface is in two: a user restart of a single station that has slot 1;
 * a closed monitor stays in the table (`Freed`), and `nrc_mac_restart`, or the
   comparison of addresses, reads what is left of it.

`TargetKnows` says "since it came under that index" because the backup of the
elements stays under the index when a restart gives the interface another: what was
told before is then lost to it, and reinstalled for whoever has the old index.

`TwtOfAp`: the TWT scheduler belongs to an open access point, or to one in `dropped`.

What the model keeps out: calls of mac80211 concurrent with a restart free an index
twice; the slot of the second interface is then overwritten. mac80211 queues its
reconfiguration, but nothing holds back its calls before that.

More that the model shows of the elements: the buffers are shared by all
interfaces; an element removed through another interface stays in the backup of
the one that added it, and comes back after a watchdog reset; a user restart
reinstalls nothing; the timer of the remote command is one for all, is
initialised again while pending, and outlives its interface
(`nrc-mac80211.c:4302`).

### 9.3 What is proved

`SpecTwtOfAp`, for any set of interfaces, stations and restarts. The property is
not inductive, because a type may change and an interface be added again while
the scheduler runs: `Beaconing` says that only open access points beacon and that
the scheduler's interface is one or was dropped; `Alone` says that the monitor is
there only by itself.

`SpecOwnIndex` and `SpecTargetKnows`, for any set of interfaces and elements and
any number of openings, failures, changes, monitors, crashes and restarts. The
theorems have no condition; the exceptions are in the properties, and `misled`
never goes away (lemma `Misled`), so the invariant is only needed while it is
false. `AllocTakes` is where that is used: an interface that is not misled takes a
slot that is free or its own. `TInv` follows the table through a restart: what is in a
slot has its index, and what is open but in no slot is being restarted (`Placed`); a
restart begins with everything in place (`Restarting`), and one that finds a single
interface either ends with it in place or has released it (`Releasing`, lemma
`Single`). `KInv` adds that an interface in place has the index it came under
(`Homes`), that what it was told is in the buffers and backed up under that index,
which is marked for a reinstallation while the interface waits to be added again,
unless another one has taken the slot (`Backed`), that a watchdog reset keeps the
target's type of a single station (`TypesKnown`), and what is in the air (`InAir`).

## 10. Start-up, download, restart, removal: `Bringup`, `MCBringup`, `Bringup_proof`

### 10.1 Correspondence

| State | Code |
|---|---|
| `fw_name`, `irq` | module parameters: a firmware file or a target that starts by itself; an interrupt or polling |
| `have`, `started`, `drv` | what has been allocated, registered or started; `hdev->started`; `nw->drv_state` |
| `pc`, `tries`, `retry` | where the loading thread (`main`) and the restart worker are, their reads and polls, the probes |
| `dl` | `nw->fw_priv`: fragment, address, length, position, what remains |
| `tgt`, `mem` | the target and its memory, address by address |
| `stranded` | a restart has failed while mac80211 holds an interface |
| `overlap` | history: a removal and a restart have been under way at a time |

One action per step of `nrc_cspi_probe`, `nrc_nw_start`, `nrc_nw_stop` and
`nrc_cspi_remove`, each with its failure; `Error` and `ErrReturn` are the
unwinding. The boot loader acknowledges each fragment but the last. The code does
not look at the result of the write (`nrc-fw.c:102`), polls for the
acknowledgement without a bound (`spi_wait_ack`, `nrc-hif-cspi.c:1493`) and stops the
kernel when the acknowledgement cannot be read or is another's (`BUG_ON`,
`nrc-fw.c:126` and `129`). So `SendFrag` is a fragment that arrives and is
acknowledged, `LoseFrag` one whose write fails or that is not acknowledged, and
`AckFails` the `BUG_ON`.

`Dead` is where a thread does not go on. `"hung"`: it waits for the acknowledgement
of a fragment that was lost. `"oops"`: that `BUG_ON`; an allocator that returns NULL to
a caller that tests `IS_ERR`; a failed `ieee80211_register_hw`, which frees the hw
twice; an RX thread that could not be created and leaves an error pointer that the
stop uses.

### 10.2 Run

`bringup`: an image of 5 bytes in fragments of 2 (the last one is short), 3
probes, 3 reads, 3 polls, 2 loads. `AllOrNothing`: a probe that fails, wherever it
does, and a removal leave nothing behind; a probe or restart that succeeds leaves
all it needs. `Loaded`: firmware that starts is the image, every byte in its place,
although any write may be lost. `Ends`: load, restart and removal end, whatever the
target does, unless a thread is `Dead`. Fairness of the two threads only.

The exceptions are in the properties, and the model takes the steps that lead to
them. `stranded`: a restart has failed; `drv_state` is INIT and the removal, which
looks for START, leaves the hw registered (`nrc-init.c:825`). `overlap`: nothing
keeps a removal from starting while a restart is under way (`nrc-init.c:864`), or a
restart from being asked for before the removal takes the debugfs file away; the
two then stop, reset and start the same device. What the driver holds is unknown
after that, but `Ends` still covers it.

### 10.3 What is proved

`SpecAllOrNothing` and `SpecLoaded`, of the specification as it is, for every length
of image and fragment, number of probes, reads, polls and loads. The invariant is
three parts under `~overlap`: `Alone` (one of the two threads is at work, and the
worker only under a registered driver), `Accounted` (what is held at each place of
each thread) and `Download` (between two fragments, everything below `pos` is in
place and `addr` has kept up with it; a thread that lost a fragment is at the last
one or hung). `Overlapped` says that `overlap` is never taken back. The arithmetic
of the fragments (that the last one begins inside the image and ends with it) is
in lemmas of its own.

## 11. Stations: `Peers`, `BlockAck`, `MaxIdle`, `MCPeers`, `Stations_proof`

### 11.1 Correspondence

| State | Code |
|---|---|
| `state[s]`, `kick[s]` | `i_sta->state`, with mac80211's steps down; `ieee80211_disconnect_sta` |
| `ampdu_mode`, `flags`, `ba[s]`, `old[s]`, `work[s]` | the module parameter, `nw->ampdu_*`, `tx_ba_session[].state`, `ba_req_last_jiffies` more than 5 s ago, `ba_session_work` |
| `macBa[s]`, `tries[s]`, `tgtBa[s]` | the session of mac80211, its count of refusals, the session of the target |
| `vif_period`, `idle[s]`, `sweep` | the access point's period, its records of stations, the time to the next sweep |
| `period`, `timer`, `lost`, `silent` | the station's keep-alive; the air; a station that is gone |

`Work` is `nrc_tx_ba_session_work`, `Ampdu` mac80211's calls of
`nrc_mac_ampdu_action`, `TxData` the frame that queues the work, `Sweeps` the
access point's timer, `Beat` the station's keep-alive. Time advances to the next
timer, in milliseconds (`Tick`): the two sides count in different units, 1000 and
1024 ms. Every call of `nrc_mac_ampdu_action` first asks for a session on TID 0 if
aggregation is supported but was never started (`Denied`): mac80211 may refuse it,
and does for TID 0 itself (`Zero`), or take it, and the call goes on (`Passes`).
Abstracted: one TID per station, and none of TID 0 beside it; the WIMs of a
station's states.

Assumed: hostapd answers an association before the record's last warning
(`Prompt`); the air loses at most `MaxLost` keep-alives in a row.

### 11.2 Run

`peers`: one station that comes and goes for ever, `ampdu_mode` manual, auto and
disabled, idle periods 0, 1 and 2 with aggregation disabled (the two meet only in
the state of the station, so their product is left out), 2 refusals in a row, 2
faults, 2 lost keep-alives, a TID other than 0, authorisation on and half a second off the sweep.
`InStep`: the target aggregates, and the driver takes a session for accepted,
only within a session of mac80211. `Recovers`: a session that was declined,
ended or refused comes to stand again while there is data, unless the peer keeps
refusing or the target refused to end it. `KeptAlive`: a station whose
keep-alive timer runs is never disconnected. `GoneInTheEnd`: one that is gone without
a word is, unless the frame that disconnects it cannot be allocated. Fairness: timers, works, data; strong fairness of mac80211's calls, which
share one ordered work queue with the driver's work.

What the properties leave out, as the code does it: a refused TX_STOP leaves
mac80211's session in its stopping state until the station leaves (`"stuck"`); -EBUSY
disables the TID for good (`"DISABLE"`); the record's work is initialised anew on
re-authorisation even while queued, which may lose it (`Inited`; what it does to the
work queue's list is not modelled); a keep-alive that finds no channel is freed and
the timer stops (`Drop`, `nrc-pm.c:420`); `ieee80211_disconnect_sta` returns without
a word when it has no memory, and the count has then ended (`missed`); `cancel_work_sync` is called under a spin lock
(`nrc-mac80211.c:2547`); a failed WIM for OPERATIONAL leaves the driver's session
ACCEPT; the netlink switch of the test suite sets `supported` to FALSE for
"enable", against its comment (`nrc-netlink.c:690`).

### 11.3 Proofs

`Stations_proof` (which also holds the proofs of section 12) proves, for any number
of stations, faults and changes of the mode and the period,

 * `SpecInStep`: `PeersSpec => []InStep`. `InStep` speaks of stations whose port is
   or was open; the invariant `Matched` says what holds in between: the driver
   never takes a session for accepted that mac80211 does not have, and the target
   holds one that mac80211 has given up only from the tear-down of a station's
   sessions to its removal, whatever the work asks for meanwhile.
 * `SpecKeptAlive`: `PeersSpec => KeptAlive` under the condition `Paced`: the
   keep-alives that may get lost in a row and the one after them come within the
   access point's count, `(MaxLost + 1) * KeepAlive(p) < 3 * 1000 * p` for every
   period in use. The invariant `Ahead` compares, at every moment, the time to the
   last of these keep-alives with the time to the sweep that gives the station up.
 * `KeptAliveByDefault`: with the driver's own offset the condition holds for every
   period while one keep-alive in a row is lost, and for periods of at most 31 units
   when two may be.

The condition is needed: the station counts 1024 ms to a unit and the access point
1000, so the 768 ms by which the station is early are used up by two lost
keep-alives when the period is long. TLC finds the station disconnected with a
period of 33 units (34 s) and two lost keep-alives in a row.

Only model-checked: `Recovers` and `GoneInTheEnd`, which are liveness.

## 12. Keys and the order of frames: `Frames`, `Keys`, `RxReorder`, `MCFrames`, `Stations_proof`

### 12.1 Correspondence

| State | Code |
|---|---|
| `sw_enc`, `caps` | the module parameter and what an interface makes of it; `cap.vif_caps[].cap_mask` |
| `rec` | `i_sta->ptk`, `i_sta->gtk` |
| `call` | the `set_key` under way, from the WIM to its answer |
| `mac[k]`, `tgt` | mac80211's view of a key, the keys of the target |
| `sess`, `open`, `head`, `stored`, `irq` | `rx_ba_session[tid]`, mac80211's reorder buffer, the frames given to `ieee80211_rx_irqsafe` and not yet seen by its tasklet |
| `nxt`, `again`, `gap` | the peer: its next number, what it may repeat, what it lost in a row |
| `drops` | history: new frames dropped in a row as out of date |
| `late` | history: a mesh interface was added while the target had keys |

`SetKey` and `DisableKey` are `nrc_mac_set_key` up to its WIM, `Returns` the rest;
the target may accept, refuse, lose the request or lose the answer (`Target`).
`HostEncrypts`, `TargetEncrypts` and `Flagged` are what the TX and RX handlers of
`nrc-trx.c` decide for a frame. `Fresh`, `Lost`, `Retry`, `Away` are the peer;
`Tasklet` and `Timeout` are mac80211's reorder buffer; `rx_h_check_sn` is the
driver's repair of it. The sessions of a station end with its pairwise key.

### 12.2 Run

`frames`: two pairwise keys, one of a cipher the target does not know, two group
keys, a signing key; numbers modulo 12 with a window of 2 (the code: 4096, and at most 64),
2 frames between driver and tasklet. On a network with keys one number is used
(`Secured`), on an open one the numbers go round. `CryptOnce`: each protected
frame is encrypted by exactly one side and decrypted by exactly one.
`DropsBounded`: a peer that comes back after any number of lost frames is heard
again within two windows, not after half the circle. `OnlyAfterAway`: the reorder
buffer is set back only then. The window must be at most a sixth of the circle
(`6 * Buf <= Mod` of `ReorderAssumption`): with numbers modulo 8 and a window of 2, or
modulo 12 and a window of 3, TLC finds runs in which more frames are dropped. The
code has room to spare: `nrc-mac80211.c:2397` limits the window to
`IEEE80211_MAX_AMPDU_BUF_HT`, 64 of 4096.

What the code does beyond them: a key the target was asked for in vain stays
recorded (the record is never cleared, TODO at `nrc-mac80211.c:3340`), so frames
that mac80211 should decrypt are flagged as decrypted (`"fallback"`); GCMP with
`sw_enc` off is such a key (`nrc-build-config.h:135`); a late answer to a request
is taken for that of the next; a mesh interface that is added beside keys in use
changes `sw_enc` for all and not the capabilities (`late`, an exception of
`CryptOnce`); `nrc_mac_flush`
(`nrc-mac80211.c:3134`) does nothing, so frames queued under an old pairwise key
are overtaken by its removal; a silence followed at once by another may add up to
more than half a circle. A silence is assumed to outlast the tasklet and the
reorder timer, and a peer to ask for a session when its earlier frames are done
with. Access-point group frames and WEP are not in the model.

### 12.3 What is proved

`SpecCryptOnce` and `SpecKeyTypes`, for every set of keys and ciphers. Until a mesh
interface is added beside keys of the target (`late`), the invariant says that a key mac80211 takes for uploaded is
in the target (`Uploaded`), that the caps follow the parameter (`Divided`), and
what the call under way has already changed (`Asked`).

`SpecOnlyAfterAway` and `SpecDropsBounded`, for every window of at most a sixth of
the circle and any number of frames between driver and tasklet. The first rests on
`OInv`: what the peer may send again is at most a window behind its next number,
and the driver's last number at most a window and the losses in a row.

The second says how long mac80211's buffer can be ahead of the peer. Numbers on a
circle have no order, so its invariant (`DInv`) gives the variables integers that
they stand for (`Synced`): the next number, the head and the end of the buffer, the
last number to arrive, those that wait for the tasklet, and two that no variable
holds: where the peer was when it came back, and what mac80211 expected then. New
frames between these two are dropped, one after the other, and they are fewer than
two windows (`InRow`); the tasklet drops nothing else that is new, because what waits
is within half the circle of the head (`Near`), in sequence but for repetitions
(`Lined`), and the buffer is ahead of the peer only on account of frames that are
themselves going to be dropped (`Stale`). The lemmas on arithmetic modulo `Mod`
(`Quotient` to `Around`, `Reached`, `Compared`) carry the comparison `Less` from the
circle to those integers; `Released`, `Skipped` and `Taken` say what
`ieee80211_release_reorder_frames` leaves in the buffer.

## 13. Netlink and the command line: `Cli`, `Netlink`, `MCCli`, `Cli_proof`

### 13.1 Correspondence

| State | Code |
|---|---|
| `genl`, `phase` | who holds `genl_mutex`, and where its handler is |
| `shell`, `monitor` | `nrc_shell_running_state`, `signal_monitor` |
| `stored` | `nw->wim_resp[kind]` for shell, raw and scan commands |
| `msg`, `reply` | a thread's request and what it was replied |
| `drv`, `link` | the driver's state, and whether an interface is there and associated |
| `run[c]`, `result[c]`, `at[c]` | the command of a program, its result, where the program is |
| `rep`, `limit`, `force` | `showRxThread`, `show_signal_try_number`, `show_rx_force_stop` |
| `ran`, `stray`, `serial` | histories: what the target has run, who left an answer behind |

`Enter` is `pre_doit` with the wake-up, the handler runs and replies, its end includes
`post_doit`. The handlers of the command line are a table (`Table`): for each
command what the check of its operands may do and the policy by which it sends
(one shell command, several, pages, a retry). `Resend`, `ShowStats` and the like
are the policies; a result that is neither success nor failure is tried again
(`NTry`). The agents of the test suites send the driver's other requests, and shell
requests without a command (`BARE`); their replies are not followed.

Left out: the text of operands and replies, history and log. A page of output is
one round, the end of the reporter is one step.

### 13.2 Run

`console`: one program with its reporter and one test agent; 2 commands from the
whole table (the second one that meets a reporter or an answer left behind), 1
request of the agent, 1 fault (a wait that times out, a lost answer, a refused
allocation, a change of the link or the driver's state). `NeverStuck`: whatever
happens to a shell command once its request is made, its handler gives the running
state back; a later command finds it set only after a return before that
(`ShellLeft`: a request without a command, or no memory for it).
`OkMeansRun`: a shell command reported as a success, which met no answer given up
by an earlier one, was run by the target. `StopSilences`: "show signal stop" leaves the
driver's monitor off, unless the driver refused. `CliEnds`: while the driver can
be asked, every command ends. Fairness: the threads run; strong fairness of
entering the mutex, which is handed over in turn.

What the code does otherwise: an allocation that fails, or a request without a
command, leaves the shell state RUNNING and every later shell command refused
(`nrc-netlink.c:1414–1422`, `:1487–1493`; `ShellLeft`); a late answer is credited to the next
command, and a raw command that timed out is reported as a success
(`cli_cmd.c:1715`), hence `stray`; "show signal stop" that meets a reporter which
has just ended by its limit waits for ever (`cli_cmd.c:963`, `:2949–2977`, `Hung`);
the program repeats a command that timed out although the target may have run it
(`cli_util.c:166`).

### 13.3 What is proved

`SpecNeverStuck`, for any number of programs, agents, commands, tries and faults:
the holder of the mutex has a request, and while the state is RUNNING (and no early
return has left it so) that holder is waiting with a shell command.

`SpecOkMeansRun`, for as many: `AInv` says that what the target still has of commands
is awaited or was given up (`Traces`), and that a program whose own answers are the
only ones it can meet takes an answer only of a command that was run (`Answers`).

`SpecStopSilences`, of one program (`Alone`: the instance that the run has) with any
number of agents that do not count stations, because a count by anybody else turns
the monitor on again: `SInv` says that the reporter asks for what its place says
(`Heeded`) and that the monitor is off from the moment both threads have asked the
driver to stop (`StoppedBoth`). The proofs use that "no answer" is not taken for a
success (`None # "SUCCESS"` in `CliAssumption`).

## 14. What is not modelled, and what is not proved

Not modelled, and why:

 * the TWT requester: the driver tells the target that a station may request, the
   requests are the target's;
 * channel contexts, P2P, remain on channel, mesh: they set parameters that go to
   the target as they are;
 * S1G channel tables, board data, `mac80211-ext/`: static tables and parsers; that
   the board data is there or not is a step of `Bringup`;
 * statistics, debug, trace, dump: output;
 * `nrc-ssp.c`: not in the build;
 * the USB-SPI bridges: below the SPI interface of Linux, which the modules take as
   a transfer that succeeds or fails; the start-up scripts;
 * the software scan and the scan time-out: not in this build; of the delayed
   deauthentication the sending cannot happen in this build, and what `nrc_mac_tx`
   still does is `TransmitNow` (section 7);
 * in modelled parts: `get_next_twt` (service times), the static credit cache of
   `nrc-mac80211.c:2678`, the loopback and polling modes of the link, WEP, and
   the formatting of everything.

Only model-checked: all liveness properties (`Drains`, the `Returns` of two
modules, `FrameWakes`, `Dozes`, `ScanEnds`, `LossFound`, `RestartEnds`, `Ends`,
`Recovers`, `GoneInTheEnd`, `CliEnds`), which the prover does not handle.

The proofs rest on the named assumptions about the constants of each module
(which TLC evaluates in its run). These have a condition besides, which their
sections explain: `SpecKeptAlive` (`Paced`; `KeptAliveByDefault` shows it of the
default offset), `SpecAgree` and the invariant under it, `SpecPsInv` (`OneWay`), and
`SpecStopSilences` (`Alone`). All the others are of the specification as the run has
it. The exceptions that section 2 lists are part of the properties themselves, and
so of the theorems: a theorem about a property says no more than the property does.
