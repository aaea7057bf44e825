\* Edits, overlapping builds that die, and two runs of airdrop_deploy.
SPECIFICATION Spec
CONSTANTS
    MaxSource = 2
    MaxRuns = 2
    None = None
INVARIANTS
    TypeOK
    RunsCallWhatTheyDeployed
    ManifestNamesADeployedProgram
    RebuildsFindTheDistribution
