SPECIFICATION FairSpec
CONSTANTS
    Kinds = {"do_cloud", "do_volume", "do_twin", "hetzner", "upcloud", "ovh", "vultr", "oracle", "google", "aws_image", "aws_volume", "lightsail", "rds"}
    MaxRetries = 1
    MaxChecks = 2
    None = None
    ByName = ByName
    Env = {"destroy", "lost", "hidden", "refuse", "error", "broker", "crash"}
CHECK_DEADLOCK FALSE
INVARIANT TypeOK CompleteIsReal NoSecondSnapshot DeletedIsGone StaysReachable
PROPERTY ChecksEnd
