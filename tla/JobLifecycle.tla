---------------------------- MODULE JobLifecycle ----------------------------
(* What a client of GET /jobs/{id} is promised of one job's status: it is   *)
(* queued, then running, then it ends once, and an ended job stays ended.   *)
CONSTANT Job
VARIABLE job

JobStatus == {"none", "queued", "running", "succeeded", "failed"}

Init == job = [j \in Job |-> "none"]

Submit(j)  == job[j] = "none" /\ job' = [job EXCEPT ![j] = "queued"]
Claim(j)   == job[j] = "queued" /\ job' = [job EXCEPT ![j] = "running"]
End(j, s)  == job[j] = "running" /\ job' = [job EXCEPT ![j] = s]

Next == \E j \in Job : Submit(j) \/ Claim(j) \/ End(j, "succeeded") \/ End(j, "failed")

Spec == Init /\ [][Next]_job
=============================================================================
