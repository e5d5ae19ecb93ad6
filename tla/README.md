# A TLA+ development for mtbolt

mtbolt is a proxy for Telegram clients. A client connects, proves that it
knows one of the configured secrets (inside a TLS-like handshake or with an
obfuscated 64-byte header), and its bytes are then relayed, either through
Telegram's middle proxies (the RPC mode) or straight to a data centre (the
*direct mode*). The program is C, built on an asynchronous *job* system: every
connection, socket, timer, target and query is a reference-counted job that
threads send signals to.

The modules in this directory specify parts of the program, check them with TLC
on small instances, and prove the most important facts with TLAPS for instances
of any size. Paths below are relative to the repository, whose C code is
`src/src/` as seen from the parent of this directory.

## Inventory

| part | files | state | what makes it hard |
|---|---|---|---|
| job scheduler | `jobs/jobs.c`, `jobs.h` | the word `j_flags` (pending signals, lock, queue bits), `j_status`, `j_refcnt`, one queue per class | several threads change one word; a signal sent while the lock is being released; who destroys the job |
| secrets | `net/net-tcp-rpc-ext-drain.c`, `-ext-server.c`, `mtproto/mtproto-proxy.c` | 32 slots (FREE, ACTIVE, DRAINING) with key and limits, counters and address table per slot | reloads while connections carry slot numbers; failed reloads; closes on several paths |
| timers | `net/net-timers.c`, `jobs.c` | heap, `real_wakeup_time` | moved and removed by other threads, stale alarms |
| connections | `net/net-connections.c`, `net-tcp-connections.c`, `net-events.c`, `net-thread.c` | connection and socket job, flags, `Events[fd].refcnt`, notification queue | failing twice, closing once, descriptors used again, accept limits |
| targets | `net/net-conn-targets.c`, `net-rpc-targets.c` | tree of connections, counters, next reconnect | backoff, use by two configurations, destruction |
| client handshake | `net/net-tcp-rpc-ext-server.c`, `net-tls-parse.c`, `net-obfs2-parse.c`, `net-proxy-protocol.c` | replay cache, `in_packet_num`, token buckets | checks made before counting, timeouts |
| direct mode | `net/net-tcp-direct-dc.c`, `mtproto/mtproto-dc-table.c` | pairs of connections, attempt counter, SOCKS5 state | either side fails first, retries |
| record sizing | `net/net-tcp-drs.c` | ramp and delay per connection | timers shared with rate limits and retries |
| forwarding | `mtproto/mtproto-proxy.c`, `mtproto-proxy-http.c` | table of external connections | crossing close messages, descriptors used again |
| RPC handshake | `net/net-tcp-rpc-client.c`, `-server.c`, `-common.c`, `net-crypto-*.c` | packet numbers, nonces | order of packets, key selection, timeouts |
| messages | `net/net-msg.c`, `net-msg-buffers.c` | chunks, buffers, parts, counts | concurrent allocation, sharing |
| queues | `common/mp-queue.c` | blocks of cells, hazard pointers | lock-free |
| configuration | `mtproto/mtproto-config.c`, `common/toml-config.c` | two configurations | failure half-way |
| process | `engine/*.c`, `mtproto-proxy.c` | signals, children | orderly exit |
| statistics, access | `mtproto/ip-stats.c`, `net/net-ip-acl.c` | shared hash table, rule lists | several processes |
| HTTP, TL, resolver, tools, digests | rest | | mostly sequential text and byte work |

How they interact: the job scheduler runs everything. A listener's job accepts
and creates a connection and a socket job; the socket's job moves bytes, the
connection's job parses them (the client handshake, the RPC handshake or HTTP).
Events for the proxy's own tables go through the notification job of the
engine's class. SIGHUP reloads both configurations: the middle proxies (targets)
and the secrets. Timers call the sweeper of draining secrets once a second.

What each part should guarantee, in a sentence: a job's handler runs in one
thread at a time, no signal is lost and no job is used after it was freed; a
connection is closed once; a descriptor's reference is released once; a client
is charged to the key it authenticated with and discounted once; removed
secrets drain and their slots come back; retries are bounded; a pair of
external connections is forgotten once on both sides; a target lives as long as
a configuration or a connection uses it; buffers are freed once and after the
last use; queues deliver every element once.

## Modules

| module | what it is |
|---|---|
| `Jobs` | the scheduler's protocol for one job |
| `JobSpec` | what it promises: a mailbox of signals with one server |
| `JobsMailbox` | the refinement mapping from `Jobs` to `JobSpec` |
| `MCJobs` | instances for TLC |
| `JobsOwnership`, `JobsLife`, `JobsProofs` | proofs about `Jobs` |
| `Secrets` | slots, handshake decisions, counters, reload, draining |
| `MCSecrets` | instances for TLC |
| `SecretsAdmit`, `SecretsProofs` | proofs about `Secrets` |

### Jobs

State: `pend`, `locked`, `queued` are the three parts of `j_flags`; `allowed` is
the upper byte of `j_status`; `refcnt` is `j_refcnt`. References are tokens with
an owner, so that "who may touch the job" can be stated independently of the
counter that the code relies on. `pc`, `ref`, `sig`, `snap` are the program
counter and the locals of each *agent*: a job thread inside the scheduler, or a
call made from a handler.

One action is one access to a shared word. `unlock_job` loads the flags,
decides, and then compares and swaps; the model keeps these as two actions
(`Unlock`, then `Release` or `Enqueue`), because decisions are taken between
them. The count is loaded, decremented and stored back in separate actions
(`DecrefCheck`, `DecrefSub`, `DecrefReclaim`, and the copies in `unlock_job`).
`try_lock_job` only loops around its compare-and-swap and is one action. A
handler may return signals for its own job and may give up signals
(`Return`). What the handlers do otherwise is another job's business.

Abstracted: the queues are sets of entries (`mp-queue.c` is a component of its
own); one job is modelled, since jobs share only queues; children, subclasses,
lists and messages of jobs are not in yet. The memory model is sequential
consistency: the code uses full barriers (`__sync_*`, `__ATOMIC_SEQ_CST`) for
these words, except for the plain stores that are actions of their own
(`DecrefReclaim`, `UDecrefReclaim`, `UDecrefLast`).

### Secrets

State: per slot `state`, `entry` (key and limits), `connections`, `bytes`,
`tracked`, `unique_ips`; `cnt` is `ext_secret_cnt`; `active` is the gauge
`direct_dc_connections_active`. Per connection `stage`, the slot number
`extra_int2`, the retry counter `attempt`, and membership in `failed`
(`C_ERROR`). `key` is a history variable: the key that the client used.

Actions: `TlsHello` (checks, nothing counted), `ObfsHeader` (checks for clients
without TLS, then counting, then in direct mode the attempt to connect),
`Leave`, `RetryAlarm`, `DcLost`, `Relay` (quota), `Fail`, `Close` (the close
handler of the connection's type), `Reload` (`tcp_rpcs_reload_ext_secrets` with
its four passes and both failures), `Sweep` (`drain_sweep_gw`).

Abstracted: addresses and keys are model values; a handshake that matches no
secret or is refused changes nothing; the drain timeout may have elapsed or not
at any sweep; expiry is a client that does not come; labels and metrics are left
out. Handlers are atomic: without `--multithread` one thread runs them all.

## Runs

| run | result | question |
|---|---|---|
| `jobs_multi` | passes, about 100,000 states | safety of the protocol, and refinement of the mailbox |
| `jobs_live` | passes, about 106,000 states | delivery and destruction |
| `secrets_slots` | passes, about 58,000 states | counters, address tables and keys under rotation, proxy mode |
| `secrets_drain` | passes, about 99,000 states | the inductive invariant in both modes; draining ends in proxy mode |
| `secrets_leak` | violation | draining ends, in direct mode |
| `secrets_crowd` | violation | the bound on active secrets |

Bounds. `jobs_multi`: four agents (two job threads of different classes, the
main thread, a nested call), three references, four signals in two classes, two
signals sent from outside. That is enough for a sender, an owner and a popping
thread to meet at every pair of points, with a self-signal and a queue change in
between. `jobs_live`: three agents, two of them threads of one class, a fast
JS_FINISH, a handler that gives up signals. `secrets_slots`: four slots for two
active secrets, two clients, two addresses with a table of one entry, five
configuration files. `secrets_drain`: two slots for one secret, three files, so
that a second rotation fails for want of a slot. `MaxBytes`, `MaxLinks`,
`MaxCount` bound counters that could grow without end in direct mode.

Fairness. In `Jobs`, a thread inside the scheduler goes on and handlers return
(weak fairness of each agent's scheduler steps); callers need not do anything.
In `Secrets`, the job of a failed connection runs, a handshake ends (at the
latest by its timeout, `handle_handshake_timeout`), and the sweeper, a timer
that re-arms itself each second, finds a slot that stays draining late in the
end (`drain_timeout_secs` is finite and positive by default). Nothing is
assumed of clients.

Findings.

* `secrets_leak`: `tcp_direct_close` discounts a client only while
  `direct_dc_connections_active` is positive. A client that never reached its
  data centre was counted under its secret but not in that gauge. If it is
  alone, its close leaves `per_secret_connections` at one too many, and the slot
  drains for ever; documentation and the comment at the increment say otherwise.
* `secrets_crowd`: a reload with too many secrets is refused after the slots
  were changed. The next release of a slot recomputes `ext_secret_cnt`, and the
  refused secrets are accepted.

## Proofs

**Jobs.** For any sets of agents, queues, references, signals, any assignment of classes
to threads and signals, and any bound on sends that satisfy
`AgentsAssumption` and `SignalsAssumption`:

* `JobsOwnership!TypeCorrect`: the type invariant.
* `JobsProofs!Inductive`: `IndInv` holds always; from it follow `Serialised`
  (mutual exclusion), `SafeFree` (no use after free), `NoAssertFails`,
  `SignalKept` (no lost signal) and `Accounting` (the count is right and queue
  bits are covered).

The argument. None of these properties is inductive alone. Mutual exclusion
needs that the plain store in `UDecrefLast` cannot meet another thread, which
needs that its agent holds the only reference (`FinishInv`, `LastOwner`), which
needs the count to be right (`RefCount`) and every agent in the scheduler to own
the reference it was given (`OwnsRef`). That a set queue bit lets a sender drop
its reference needs the entry behind the bit (`QueuedCovered`). `FinishPending`
says that once JS_FINISH is pending only its own way to the handler is left.
`JobsOwnership` proves types, ownership and queue coverage; `JobsLife` the lock,
the last owner and the count; `JobsProofs` adds what `unlock_job` concludes from
its snapshot (`Concluded`) and with it `NoLostSignal`, and draws the theorems.

**Secrets.** For any finite sets of connections and addresses, any keys, limits,
pinned secrets, configurations and sizes that satisfy `SecretsAssumption`, in
both modes:

* `SecretsProofs!SecretsInductive`: `SecretsInv` holds always; its parts are
  drawn as `SlotsKeepKeys`, `CountersCover` and `AddressesCovered`.

The argument. `KeyStable` and `CountCovers` need each other: a slot is released
only at a counter of zero, so the counter has to cover the connections, and a
counter is set to zero when a free slot is taken, so a connection must not carry
a free slot's number. A reload refreshes a slot in use only from an entry with
its own key. No counter goes below zero, because the connection that is
discounted is itself among those covered. `DirectStages` is needed because only
`tcp_direct_close` may skip the decrement, and then `CountCovers` asks for less.
`SecretsAdmit` has the loops (`Lowest`, `Highest`), the first state and the steps
up to the count; `SecretsProofs` the close, the reload, the sweep, and the
theorems. `MaxBytes`, `MaxLinks` and `MaxCount` are arbitrary in the proofs.

Only model-checked: liveness (`Delivered`, `Destroyed`, `ProxyDrainEnds`; out of
this prover's reach) and the refinement of the mailbox.

## Plan

In this order; each module gets its instance, its properties and mutants, then
its proofs where they are in reach.

1. The refinement of `JobSpec` by `Jobs` as a theorem.
2. `Connections`: connection and socket jobs, failing and closing,
   `Events[fd].refcnt`, the listener's limits, notifications. Properties: close
   once, the socket's reference is released once, accepting resumes.
   Composition: it uses jobs through `JobSpec`'s promise (handlers one at a
   time, signals not lost).
3. `DirectDC`: the pair, SOCKS5, retries. Properties: both sides close, the
   number of attempts is bounded as `docs/features/direct-mode.md` says.
4. `ExtConnections`: the table, forwarding, crossing closes, the LRU.
5. `Targets` and `Config`: reload, rollback, counts, backoff.
6. `RpcHandshake`: packet numbers and key selection on both ends, with the
   network between them.
7. `Timers`, `MpQueue`, `Buffers`: the structures below the scheduler, each
   against an abstract queue, set of timers or heap.
8. `Parsers`, `IpAcl`, `IpStats`: algorithms against reference definitions.

At most six more runs are foreseen: one per item from 2 to 7, with 8 sharing
the last.

## Not modelled

Digests and ciphers (bit-level arithmetic on large domains), the QR code and
TOML libraries (vendored), text formatting of metrics and of the link page,
diagnostic commands, the resolver, and CPU and process statistics.
